---- MODULE Spec2Model ----
(***************************************************************************)
(* git_manager: repository discovery, status classification and the        *)
(* cache reconcile cycle (src/src/gitrepo.rs, src/src/utils.rs) with the   *)
(* background worker that runs the cycle (src/src/lib.rs).                 *)
(*                                                                         *)
(* The terminal UI's filter input, its completion popup and the filtered   *)
(* repository table (src/src/components) are modelled as well.             *)
(*                                                                         *)
(* Ten specifications:                                                     *)
(*   SpecClassify  one call of get_status / build / build_from_last over   *)
(*                 every combination of subprocess outcomes;               *)
(*   Spec          the worker's reconcile cycles over a small filesystem;  *)
(*   SpecTwice     two whole cycles in a row with the same outcomes;       *)
(*   SpecRunner    one call of a process runner and its child process;     *)
(*   SpecApp       the foreground loop and the worker task of App::run;    *)
(*   SpecAppFair   SpecApp with weak fairness of the worker's steps and of *)
(*                 the foreground's receive, for what must happen in time; *)
(*   SpecScore     one call of calc_item_score on a query and a keyword;   *)
(*   SpecInput     key events on the filter input and its popup, each      *)
(*                 followed by update_complection;                         *)
(*   SpecFilter    one call of update_show_repos on a repository list and  *)
(*                 a filter string;                                        *)
(*   SpecSelect    the repository table over time: update_show_repos,      *)
(*                 next, previous and get_select_repo_id in any order.     *)
(*                                                                         *)
(* What the model takes from the environment:                              *)
(*   - every command prints valid UTF-8 (String::from_utf8(..).unwrap() in *)
(*     run_command does not panic), and collecting the output of a child   *)
(*     that has ended does not fail;                                       *)
(*   - directories and the cache file change between cycles, not while a   *)
(*     cycle runs;                                                         *)
(*   - a task that ends and its hand-over by join_next are one step: the   *)
(*     code sees a finished task only through join_next.                   *)
(*   - the application recomputes the completions (update_complection)     *)
(*     after every key event it hands to the input, before the next key;   *)
(*   - under SpecAppFair every subprocess the cycle waits for ends, the    *)
(*     runtime keeps scheduling the worker task, and the foreground loop   *)
(*     keeps polling (it wakes every 50 ms) while the application runs.    *)
(***************************************************************************)
EXTENDS Integers, Sequences, FiniteSets, TLC

VARIABLES
    dirs,           \* filesystem: path -> number of control directories fd finds in it (0: directory absent)
    cache_file,     \* ~/.cache/git_manager/repo.json
    pc,             \* worker position: start | load | join | returned | idle
    all_git_paths,  \* get_all_git_repo: local all_git_paths
    repos,          \* get_all_git_repo: local repos (what load_all_repo returned)
    set,            \* get_all_git_repo / generate_git_repo: the JoinSet, in spawn order
    git_repos,      \* the join loop's git_repos
    err_len,        \* the join loop's err_len
    ret,            \* what get_all_git_repo returned
    data_tx,        \* messages sent on the result channel and not yet taken
    cycles,         \* cycles started so far
    faults,         \* subprocess / file faults injected so far
    cl_in,          \* SpecClassify: the subprocess outcomes of one classification
    cl,             \* SpecClassify: the call made and what it returned
    rc,             \* SpecTwice: the probe outcomes of both runs and what each run did
    rn,             \* SpecRunner: one call of a process runner and its child
    app,            \* SpecApp: the foreground App, the worker's locals, the two request channels
    sc,             \* SpecScore: one call of calc_item_score
    inp,            \* SpecInput: the Input component with its completion popup
    flt             \* SpecFilter: one call of update_show_repos; SpecSelect: the table

vars == <<dirs, cache_file, pc, all_git_paths, repos, set, git_repos, err_len,
          ret, data_tx, cycles, faults, cl_in, cl, rc, rn, app, sc, inp, flt>>

ui_vars == <<sc, inp, flt>>
side_vars == <<rc, rn, app, ui_vars>>

cycle_vars == <<dirs, cache_file, pc, all_git_paths, repos, set, git_repos,
                err_len, ret, data_tx, cycles, faults>>

-----------------------------------------------------------------------------
(* Bounds of the model *)

MaxCycles == 2
MaxFaults == 1
MaxCtl == 2

-----------------------------------------------------------------------------
(* Rust values *)

None == [some |-> FALSE]
Some(v) == [some |-> TRUE, v |-> v]
Ok(v) == [ok |-> TRUE, v |-> v]
Err(e) == [ok |-> FALSE, err |-> e]

\* The value of a variable that the specification at hand does not use.
Unused == [pc |-> "unused"]

GitStatus == {"Clean", "NeedPull", "NeedPush", "NeedCommit", "Timeout"}

\* A path: absolute or not, and its components.
AbsPath(segs) == [abs |-> TRUE, segs |-> segs]
EmptyPath == [abs |-> FALSE, segs |-> <<>>]
RootPath == AbsPath(<<>>)

\* Path::parent: None for "/" and for "", else the path without its last component.
parent(path) ==
    IF path.segs = <<>> THEN None
    ELSE Some([abs |-> path.abs, segs |-> SubSeq(path.segs, 1, Len(path.segs) - 1)])

\* Path::file_name: None when the path has no last component.
file_name(path) ==
    IF path.segs = <<>> THEN None ELSE Some(path.segs[Len(path.segs)])

GitRepo(name, path, status, last_commit_time) ==
    [name |-> name, path |-> path, status |-> status,
     last_commit_time |-> last_commit_time]

-----------------------------------------------------------------------------
(* Subprocesses.  A finished bash process is [spawn, exit, stdout]; stdout  *)
(* is kept as far as the callers read it: the markers a status text        *)
(* contains, the remotes listed, the first line of git show.               *)

SpawnFailed == [spawn |-> FALSE, exit |-> 0, stdout |-> {}]
Exited(code, out) == [spawn |-> TRUE, exit |-> code, stdout |-> out]

\* str::contains on a status text
contains(text, marker) == marker \in text

\* str::is_empty on the remote listing
is_empty(text) == text = {}

ShowEmpty == [kind |-> "empty", val |-> 0]
ShowDigits(n) == [kind |-> "digits", val |-> n]
ShowOther == [kind |-> "other", val |-> 0]

\* utils.rs run_command: Err only when bash cannot be spawned; the exit status is not read.
run_command(proc) ==
    IF proc.spawn THEN Ok(proc.stdout) ELSE Err("spawn")

\* A child raced against the deadline and ctrl-c: [spawn, race, exit, kill].
Child(spawn, race, exit, kill) ==
    [spawn |-> spawn, race |-> race, exit |-> exit, kill |-> kill]

\* utils.rs run_command_timeout_no: Ok as soon as the child ends, whatever its exit
\* status; when the deadline or ctrl-c wins, the child is killed and Err is returned.
timed_out_without_kill(child) ==
    IF ~child.spawn THEN Err("spawn")
    ELSE IF child.race = "exit" THEN Ok("unit")
    ELSE Err("Command timed out")

run_command_timeout_no(child) ==
    IF ~child.spawn THEN Err("spawn")
    ELSE IF child.race = "exit" THEN Ok("unit")
    ELSE IF ~child.kill THEN Err("kill")
    ELSE Err("Command timed out")

\* utils.rs run_command_timeout: as run_command_timeout_no, but a child that ends
\* gives Ok(stdout) only when it exited with 0, and Err otherwise.
run_command_timeout(child, stdout) ==
    IF ~child.spawn THEN Err("spawn")
    ELSE IF child.race = "exit"
         THEN IF child.exit = 0 THEN Ok(stdout) ELSE Err("Command failed with exit code")
    ELSE IF ~child.kill THEN Err("kill")
    ELSE Err("Command timed out")

-----------------------------------------------------------------------------
(* GitRepo::get_status, GitRepo::get_last_commit_time, build, build_from_last *)

\* gitrepo.rs 98
clean_or_marked(status_res) ==
    \/ contains(status_res, "working tree clean")
    \/ contains(status_res, "git push")
    \/ contains(status_res, "git pull")

working_tree_clean(status_res) == contains(status_res, "working tree clean")

\* gitrepo.rs 101, 123-129: Clean, then NeedPull, then NeedPush overwrite it.
new_status_pull_wins(now_need_pull, now_need_push) ==
    IF now_need_pull THEN "NeedPull"
    ELSE IF now_need_push THEN "NeedPush" ELSE "Clean"

new_status(now_need_pull, now_need_push) ==
    IF now_need_push THEN "NeedPush"
    ELSE IF now_need_pull THEN "NeedPull" ELSE "Clean"

Called(res, log) == [res |-> res, log |-> log]

\* gitrepo.rs 111-121: no marker in the first status: fetch, then status again.
after_fetch(e) ==
    LET fetched == run_command_timeout_no(e.fetch) IN
    IF ~fetched.ok
    THEN Called(Err(fetched.err), <<"git status", "git remote show", "git fetch">>)
    ELSE LET status_after_fetch_res == run_command(e.status2) IN
         IF ~status_after_fetch_res.ok
         THEN Called(Err(status_after_fetch_res.err),
                     <<"git status", "git remote show", "git fetch", "git status">>)
         ELSE Called(Ok(new_status(contains(status_after_fetch_res.v, "git pull"),
                                   contains(status_after_fetch_res.v, "git push"))),
                     <<"git status", "git remote show", "git fetch", "git status">>)

\* gitrepo.rs 101-132: the clean-tree branch.
clean_tree_always_fetches(e, status_res) ==
    LET remote == run_command(e.remote) IN
    IF ~remote.ok THEN Called(Err(remote.err), <<"git status", "git remote show">>)
    ELSE IF is_empty(remote.v) THEN Called(Ok("Clean"), <<"git status", "git remote show">>)
    ELSE after_fetch(e)

clean_tree(e, status_res) ==
    LET remote == run_command(e.remote) IN
    IF ~remote.ok THEN Called(Err(remote.err), <<"git status", "git remote show">>)
    ELSE IF is_empty(remote.v) THEN Called(Ok("Clean"), <<"git status", "git remote show">>)
    ELSE LET now_need_pull == contains(status_res, "git pull")
             now_need_push == contains(status_res, "git push")
         IN  IF ~now_need_push /\ ~now_need_pull
             THEN after_fetch(e)
             ELSE Called(Ok(new_status(now_need_pull, now_need_push)),
                         <<"git status", "git remote show">>)

\* gitrepo.rs 96-136.  e holds the outcome of each subprocess get_status may start;
\* the result carries the probes that were started, in order.
get_status(e) ==
    LET status_res == run_command(e.status1) IN
    IF ~status_res.ok THEN Called(Err(status_res.err), <<"git status">>)
    ELSE IF working_tree_clean(status_res.v)
         THEN clean_tree(e, status_res.v)
         ELSE Called(Ok("NeedCommit"), <<"git status">>)

\* gitrepo.rs 138-152
get_last_commit_time(e) ==
    LET res == run_command(e.show) IN
    IF ~res.ok THEN Err(res.err)
    ELSE IF res.v.kind = "empty" THEN Ok(0)
    ELSE IF res.v.kind = "digits" THEN Ok(res.v.val)
    ELSE Err("parse")

\* gitrepo.rs 60-63, 80-83: an Err of get_status becomes Timeout.
status_or_clean(called) ==
    IF called.res.ok THEN called.res.v ELSE "Clean"

status_or_timeout(called) ==
    IF called.res.ok THEN called.res.v ELSE "Timeout"

\* What a build returns: ok (a repository), err (the ? operator) or panic (unwrap).
Built(kind, repo, log) == [kind |-> kind, repo |-> repo, log |-> log]
NoRepo == GitRepo("", EmptyPath, "Clean", 0)

\* gitrepo.rs 57-73
build(path, e) ==
    LET last_commit_time == get_last_commit_time(e) IN
    IF ~last_commit_time.ok THEN Built("err", NoRepo, <<"git show">>)
    ELSE LET called == get_status(e)
             status == status_or_timeout(called)
         IN  IF ~file_name(path).some
             THEN Built("panic", NoRepo, <<"git show">> \o called.log)
             ELSE Built("ok",
                        GitRepo(file_name(path).v, path, status, last_commit_time.v),
                        <<"git show">> \o called.log)

\* gitrepo.rs 75-94
build_from_last_inverted(repo, e) ==
    LET last_commit_time == get_last_commit_time(e) IN
    IF ~last_commit_time.ok THEN Built("err", NoRepo, <<"git show">>)
    ELSE IF repo.status = "Timeout"
         THEN LET called == get_status(e) IN
              Built("ok",
                    GitRepo(repo.name, repo.path, status_or_timeout(called),
                            last_commit_time.v),
                    <<"git show">> \o called.log)
         ELSE Built("ok",
                    GitRepo(repo.name, repo.path, "Timeout", last_commit_time.v),
                    <<"git show">>)

build_from_last(repo, e) ==
    LET last_commit_time == get_last_commit_time(e) IN
    IF ~last_commit_time.ok THEN Built("err", NoRepo, <<"git show">>)
    ELSE IF repo.status # "Timeout"
         THEN LET called == get_status(e) IN
              Built("ok",
                    GitRepo(repo.name, repo.path, status_or_timeout(called),
                            last_commit_time.v),
                    <<"git show">> \o called.log)
         ELSE Built("ok",
                    GitRepo(repo.name, repo.path, "Timeout", last_commit_time.v),
                    <<"git show">>)

-----------------------------------------------------------------------------
(* SpecClassify: one classification call over every subprocess outcome *)

StatusTexts == SUBSET {"working tree clean", "git pull", "git push"}
AfterFetchTexts == SUBSET {"git pull", "git push"}

ShowProcs ==
    {SpawnFailed, Exited(0, ShowEmpty), Exited(0, ShowDigits(7)), Exited(0, ShowOther),
     Exited(1, ShowEmpty)}
Status1Procs == {SpawnFailed, Exited(1, {})} \cup {Exited(0, t) : t \in StatusTexts}
RemoteProcs == {SpawnFailed, Exited(0, {}), Exited(0, {"origin"}), Exited(1, {})}
FetchChildren ==
    {Child(FALSE, "exit", 0, TRUE), Child(TRUE, "exit", 0, TRUE),
     Child(TRUE, "exit", 1, TRUE), Child(TRUE, "deadline", 0, TRUE),
     Child(TRUE, "interrupt", 0, TRUE), Child(TRUE, "deadline", 0, FALSE)}
Status2Procs == {SpawnFailed, Exited(1, {})} \cup {Exited(0, t) : t \in AfterFetchTexts}

ProbeOutcomes ==
    [show : ShowProcs, status1 : Status1Procs, remote : RemoteProcs,
     fetch : FetchChildren, status2 : Status2Procs]

A == AbsPath(<<"r", "a">>)
B == AbsPath(<<"r", "b">>)
C == AbsPath(<<"r", "c">>)
Paths == {A, B, C}

NoCall == [call |-> "none", cached |-> "Clean", out |-> Called(Ok("Clean"), <<>>)]

ClassifyInit ==
    /\ cl_in \in [path : {A, RootPath}, e : ProbeOutcomes]
    /\ cl = NoCall

GetStatusCall ==
    /\ cl.call = "none"
    /\ cl' = [call |-> "get_status", cached |-> "Clean", out |-> get_status(cl_in.e)]
    /\ UNCHANGED <<cl_in, cycle_vars, side_vars>>

BuildCall ==
    /\ cl.call = "none"
    /\ cl' = [call |-> "build", cached |-> "Clean", out |-> build(cl_in.path, cl_in.e)]
    /\ UNCHANGED <<cl_in, cycle_vars, side_vars>>

BuildFromLastCall ==
    /\ cl.call = "none"
    /\ file_name(cl_in.path).some
    /\ \E s \in GitStatus :
          cl' = [call |-> "build_from_last", cached |-> s,
                 out |-> build_from_last(
                            GitRepo(file_name(cl_in.path).v, cl_in.path, s, 3),
                            cl_in.e)]
    /\ UNCHANGED <<cl_in, cycle_vars, side_vars>>

ClassifyNext == GetStatusCall \/ BuildCall \/ BuildFromLastCall

-----------------------------------------------------------------------------
(* The filesystem the cycle runs over.  Three repositories with a fixed     *)
(* state each: A is clean and level with its remote, B is clean and behind *)
(* its remote (seen only after a fetch), C has uncommitted changes and no  *)
(* remote.  A directory that is absent makes "cd <path> &&" fail, so the    *)
(* command after it never runs and stdout is empty.                        *)

PathOrder == <<A, B, C>>
CtlNames == <<".git", ".bak.git", ".old.git", ".x.git">>

HeadTime(p) == IF p = A THEN 30 ELSE 20
Worktree(p) == IF p = C THEN {} ELSE {"working tree clean"}
Remotes(p) == IF p = C THEN {} ELSE {"origin"}
Upstream(p) == IF p = B THEN {"git pull"} ELSE {}

DirConfigs ==
    {d \in [Paths -> 0..MaxCtl] : Cardinality({p \in Paths : d[p] > 1}) <= 1}

\* fd's output split at '\n': one line per control directory, then the empty
\* piece after the last newline.
LinesOf(d, p) == [i \in 1..d[p] |-> AbsPath(p.segs \o <<CtlNames[i]>>)]
FdLines(d) ==
    LinesOf(d, PathOrder[1]) \o LinesOf(d, PathOrder[2]) \o LinesOf(d, PathOrder[3])
        \o <<EmptyPath>>

CycleFaults == {"show", "status", "fetch", "fetch_exit"}

\* The outcome of each subprocess of a classification of path p, with one fault.
WorldEnv(d, p, fault) ==
    LET present == d[p] > 0
        fetch_ok == present /\ fault \notin {"fetch", "fetch_exit"}
    IN  [show |-> IF fault = "show" THEN SpawnFailed
                  ELSE IF present THEN Exited(0, ShowDigits(HeadTime(p)))
                  ELSE Exited(1, ShowEmpty),
         status1 |-> IF fault = "status" THEN SpawnFailed
                     ELSE IF present THEN Exited(0, Worktree(p))
                     ELSE Exited(1, {}),
         remote |-> IF present THEN Exited(0, Remotes(p)) ELSE Exited(1, {}),
         fetch |-> IF fault = "fetch" THEN Child(TRUE, "deadline", 0, TRUE)
                   ELSE Child(TRUE, "exit", IF fetch_ok THEN 0 ELSE 1, TRUE),
         status2 |-> IF ~present THEN Exited(1, {})
                     ELSE Exited(0, Worktree(p) \cup
                                    (IF fetch_ok THEN Upstream(p) ELSE {}))]

\* Whether the faulted probe was started at all.
FaultHits(fault, log) ==
    CASE fault = "none" -> TRUE
      [] fault = "show" -> TRUE
      [] fault = "status" -> Len(log) >= 2
      [] OTHER -> \E i \in 1..Len(log) : log[i] = "git fetch"

-----------------------------------------------------------------------------
(* Discovery and the cache file *)

\* gitrepo.rs 190-196
search_keeps_lines(proc) ==
    LET find_res == run_command(proc) IN
    IF ~find_res.ok THEN Err(find_res.err)
    ELSE Ok(SelectSeq(find_res.v, LAMBDA line : parent(line).some))

search_all_git_path(proc) ==
    LET find_res == run_command(proc) IN
    IF ~find_res.ok THEN Err(find_res.err)
    ELSE LET kept == SelectSeq(find_res.v, LAMBDA line : parent(line).some)
         IN  Ok([i \in 1..Len(kept) |-> parent(kept[i]).v])

\* serde_json of Vec<GitRepo>: an array of objects with the fields in order.
to_json(list) ==
    [i \in 1..Len(list) |->
        <<list[i].name, list[i].path, list[i].status, list[i].last_commit_time>>]

from_json_without_time(text) ==
    [i \in 1..Len(text) |-> GitRepo(text[i][1], text[i][2], text[i][3], 0)]

from_json(text) ==
    [i \in 1..Len(text) |-> GitRepo(text[i][1], text[i][2], text[i][3], text[i][4])]

NoFile == [kind |-> "absent", text |-> <<>>]
JsonFile(text) == [kind |-> "json", text |-> text]
Unreadable == [kind |-> "unreadable", text |-> <<>>]
Malformed == [kind |-> "malformed", text |-> <<>>]

\* gitrepo.rs 199-205: Err when the file cannot be written.
save_skips_empty(file, list, writable) ==
    IF ~writable THEN [res |-> Err("write"), file |-> file]
    ELSE IF list = <<>> THEN [res |-> Ok("unit"), file |-> file]
    ELSE [res |-> Ok("unit"), file |-> JsonFile(to_json(list))]

save_all_git_repo(file, list, writable) ==
    IF writable
    THEN [res |-> Ok("unit"), file |-> JsonFile(to_json(list))]
    ELSE [res |-> Err("write"), file |-> file]

\* gitrepo.rs 207-217
load_requires_file(file) ==
    CASE file.kind = "absent" -> Err("read")
      [] file.kind = "unreadable" -> Err("read")
      [] file.kind = "malformed" -> Err("parse")
      [] OTHER -> Ok(Some(from_json(file.text)))

load_all_repo(file) ==
    CASE file.kind = "absent" -> Ok(None)
      [] file.kind = "unreadable" -> Err("read")
      [] file.kind = "malformed" -> Err("parse")
      [] OTHER -> Ok(Some(from_json(file.text)))

-----------------------------------------------------------------------------
(* The cycle: get_all_git_repo and generate_git_repo *)

Task(kind, path, repo) ==
    [kind |-> kind, path |-> path, repo |-> repo, done |-> FALSE,
     fault |-> "none", out |-> Built("err", NoRepo, <<>>)]

\* gitrepo.rs 267: Vec::retain
retain_keeps_all(paths, cached_path) == paths

retain(paths, cached_path) == SelectSeq(paths, LAMBDA item : item # cached_path)

\* gitrepo.rs 266-268: all_git_paths after the loop over the cached repositories
RECURSIVE retain_each(_, _)
retain_each(paths, cached) ==
    IF cached = <<>> THEN paths
    ELSE retain_each(retain(paths, Head(cached).path), Tail(cached))

\* gitrepo.rs 265-291: the tasks spawned when a cache was loaded
spawn_reconcile(cached, paths) ==
    LET new_paths == retain_each(paths, cached) IN
    [i \in 1..Len(cached) |-> Task("build_from_last", cached[i].path, cached[i])]
        \o [j \in 1..Len(new_paths) |-> Task("build", new_paths[j], NoRepo)]

\* gitrepo.rs 220-234: the tasks spawned when there is no cache
spawn_generate(paths) ==
    [j \in 1..Len(paths) |-> Task("build", paths[j], NoRepo)]

\* gitrepo.rs 226-232, 270-276, 283-289: the body of a spawned task
run_task(task, e) ==
    IF task.kind = "build" THEN build(task.path, e)
    ELSE build_from_last(task.repo, e)

\* slice::sort_by_key is stable: x goes after every element whose key is not larger.
RECURSIVE insert_by_key(_, _)
insert_by_key(x, sorted) ==
    IF sorted = <<>> THEN <<x>>
    ELSE IF Head(sorted).last_commit_time <= x.last_commit_time
         THEN <<Head(sorted)>> \o insert_by_key(x, Tail(sorted))
         ELSE <<x>> \o sorted

RECURSIVE sort_by_key(_)
sort_by_key(list) ==
    IF list = <<>> THEN <<>>
    ELSE insert_by_key(list[Len(list)], sort_by_key(SubSeq(list, 1, Len(list) - 1)))

\* gitrepo.rs 254, 311: Vec::reverse
reverse_forgotten(list) == list

reverse(list) == [i \in 1..Len(list) |-> list[Len(list) + 1 - i]]

Init ==
    /\ dirs \in DirConfigs
    /\ cache_file = NoFile
    /\ pc = "start"
    /\ all_git_paths = <<>>
    /\ repos = None
    /\ set = <<>>
    /\ git_repos = <<>>
    /\ err_len = 0
    /\ ret = None
    /\ data_tx = <<>>
    /\ cycles = 0
    /\ faults = 0
    /\ cl_in = [path |-> A, e |-> CHOOSE e \in ProbeOutcomes : TRUE]
    /\ cl = NoCall
    /\ rc = Unused
    /\ rn = Unused
    /\ app = Unused
    /\ sc = Unused
    /\ inp = Unused
    /\ flt = Unused

\* gitrepo.rs 260: discovery; its Err is the cycle's Err.
SearchAllGitPath ==
    /\ pc = "start"
    /\ \E proc \in {Exited(0, FdLines(dirs))} \cup
                   (IF faults < MaxFaults THEN {SpawnFailed} ELSE {}) :
          LET found == search_all_git_path(proc) IN
          /\ faults' = IF proc.spawn THEN faults ELSE faults + 1
          /\ IF found.ok
             THEN /\ all_git_paths' = found.v
                  /\ pc' = "load"
                  /\ ret' = ret
             ELSE /\ all_git_paths' = all_git_paths
                  /\ pc' = "returned"
                  /\ ret' = Some(Err(found.err))
    /\ UNCHANGED <<dirs, cache_file, repos, set, git_repos, err_len, data_tx,
                   cycles, cl_in, cl, side_vars>>

\* gitrepo.rs 262-291 and 220-234: load the cache, then spawn every task.
LoadAndSpawn ==
    /\ pc = "load"
    /\ LET loaded == load_all_repo(cache_file) IN
       /\ repos' = Some(loaded)
       /\ IF ~loaded.ok
          THEN /\ ret' = Some(Err(loaded.err))
               /\ pc' = "returned"
               /\ UNCHANGED <<set, all_git_paths>>
          ELSE /\ ret' = ret
               /\ pc' = "join"
               /\ IF loaded.v.some
                  THEN /\ set' = spawn_reconcile(loaded.v.v, all_git_paths)
                       /\ all_git_paths' = retain_each(all_git_paths, loaded.v.v)
                  ELSE /\ set' = spawn_generate(all_git_paths)
                       /\ all_git_paths' = all_git_paths
    /\ UNCHANGED <<dirs, cache_file, git_repos, err_len, data_tx, cycles, faults,
                   cl_in, cl, side_vars>>

\* gitrepo.rs 238-251, 295-308: a task ends and join_next hands it over.
JoinNext(i) ==
    /\ pc = "join"
    /\ ~set[i].done
    /\ \E fault \in {"none"} \cup (IF faults < MaxFaults THEN CycleFaults ELSE {}) :
          LET out == run_task(set[i], WorldEnv(dirs, set[i].path, fault)) IN
          /\ FaultHits(fault, out.log)
          /\ set' = [set EXCEPT ![i] =
                        [@ EXCEPT !.done = TRUE, !.fault = fault, !.out = out]]
          /\ git_repos' = IF out.kind = "ok" THEN Append(git_repos, out.repo)
                          ELSE git_repos
          /\ err_len' = IF out.kind = "ok" THEN err_len ELSE err_len + 1
          /\ faults' = IF fault = "none" THEN faults ELSE faults + 1
    /\ UNCHANGED <<dirs, cache_file, pc, all_git_paths, repos, ret, data_tx,
                   cycles, cl_in, cl, side_vars>>

\* gitrepo.rs 239, 296: join_next() gives None once no task is left in the set.
join_next_none_after_first(tasks) ==
    tasks = <<>> \/ \E i \in 1..Len(tasks) : tasks[i].done

join_next_none(tasks) == \A i \in 1..Len(tasks) : tasks[i].done

\* gitrepo.rs 253-256, 310-322: every task joined: sort, reverse, save, return.
SortAndSave ==
    /\ pc = "join"
    /\ join_next_none(set)
    /\ \E writable \in {TRUE} \cup (IF faults < MaxFaults THEN {FALSE} ELSE {}) :
          LET res_repos == reverse(sort_by_key(git_repos))
              saved == save_all_git_repo(cache_file, res_repos, writable)
          IN  /\ cache_file' = saved.file
              /\ ret' = IF saved.res.ok THEN Some(Ok(<<res_repos, err_len>>))
                        ELSE Some(Err(saved.res.err))
              /\ faults' = IF writable THEN faults ELSE faults + 1
    /\ pc' = "returned"
    /\ UNCHANGED <<dirs, all_git_paths, repos, set, git_repos, err_len, data_tx,
                   cycles, cl_in, cl, side_vars>>

\* lib.rs 275-282: what the worker sends for the value the cycle returned.
worker_sends_unsorted(res) ==
    IF res.ok THEN <<sort_by_key(res.v[1]), res.v[2]>> ELSE <<<<>>, 0>>

worker_message(res) == IF res.ok THEN res.v ELSE <<<<>>, 0>>

\* lib.rs 275-283: the worker sends the result, or an empty list for an Err.
Publish ==
    /\ pc = "returned"
    /\ data_tx' = Append(data_tx, worker_message(ret.v))
    /\ pc' = "idle"
    /\ cycles' = cycles + 1
    /\ all_git_paths' = <<>>
    /\ repos' = None
    /\ set' = <<>>
    /\ git_repos' = <<>>
    /\ err_len' = 0
    /\ ret' = None
    /\ UNCHANGED <<dirs, cache_file, faults, cl_in, cl, side_vars>>

\* lib.rs 289-295, 304-308: the foreground takes the result, and a later refresh
\* intent asks the worker for another cycle.
Refresh ==
    /\ pc = "idle"
    /\ cycles < MaxCycles
    /\ data_tx' = <<>>
    /\ pc' = "start"
    /\ UNCHANGED <<dirs, cache_file, all_git_paths, repos, set, git_repos, err_len,
                   ret, cycles, faults, cl_in, cl, side_vars>>

\* Between two cycles directories appear and disappear.
FsChange ==
    /\ pc = "idle"
    /\ cycles < MaxCycles
    /\ dirs' \in DirConfigs \ {dirs}
    /\ UNCHANGED <<cache_file, pc, all_git_paths, repos, set, git_repos, err_len,
                   ret, data_tx, cycles, faults, cl_in, cl, side_vars>>

\* Between two cycles the cache file is damaged (truncated, permissions changed).
CacheDamage ==
    /\ pc = "idle"
    /\ cycles < MaxCycles
    /\ faults < MaxFaults
    /\ cache_file.kind = "json"
    /\ cache_file' \in {Unreadable, Malformed}
    /\ faults' = faults + 1
    /\ UNCHANGED <<dirs, pc, all_git_paths, repos, set, git_repos, err_len, ret,
                   data_tx, cycles, cl_in, cl, side_vars>>

Next ==
    \/ SearchAllGitPath
    \/ LoadAndSpawn
    \/ \E i \in 1..Len(set) : JoinNext(i)
    \/ SortAndSave
    \/ Publish
    \/ Refresh
    \/ FsChange
    \/ CacheDamage

Spec == Init /\ [][Next]_vars

ClassifyStart ==
    /\ ClassifyInit
    /\ dirs = [p \in Paths |-> 0]
    /\ cache_file = NoFile
    /\ pc = "idle"
    /\ all_git_paths = <<>>
    /\ repos = None
    /\ set = <<>>
    /\ git_repos = <<>>
    /\ err_len = 0
    /\ ret = None
    /\ data_tx = <<>>
    /\ cycles = MaxCycles
    /\ faults = 0
    /\ rc = Unused
    /\ rn = Unused
    /\ app = Unused
    /\ sc = Unused
    /\ inp = Unused
    /\ flt = Unused

SpecClassify == ClassifyStart /\ [][ClassifyNext]_vars

-----------------------------------------------------------------------------
(* Properties of the reconcile cycle (Spec) *)

PathsOf(list) == {list[i].path : i \in 1..Len(list)}

\* The parent directories a discovery over d lists, one per control directory.
Repeat(p, n) == [i \in 1..n |-> p]
FoundPaths(d) ==
    Repeat(PathOrder[1], d[PathOrder[1]]) \o Repeat(PathOrder[2], d[PathOrder[2]])
        \o Repeat(PathOrder[3], d[PathOrder[3]])

Present(d) == {p \in Paths : d[p] > 0}

Returned == pc = "returned"
ReturnedOk == pc = "returned" /\ ret.v.ok
Result == ret.v.v[1]
CacheLoaded == repos.some /\ repos.v.ok /\ repos.v.v.some
Previous == repos.v.v.v
NoTaskFault == \A i \in 1..Len(set) : set[i].fault = "none"

\* C1: in a cycle that starts from a cache, every cached repository whose commit
\* time was read gets the status probe, and one cached as Timeout whose probes
\* all succeed leaves the cycle with a status other than Timeout.
C1_TimeoutEntriesReprobed ==
    \A i \in 1..Len(set) :
        (set[i].done /\ set[i].kind = "build_from_last" /\ set[i].out.kind = "ok")
        => /\ Len(set[i].out.log) >= 2
           /\ (set[i].repo.status = "Timeout" /\ set[i].fault = "none"
               /\ dirs[set[i].path] > 0)
              => set[i].out.repo.status # "Timeout"

\* C2: with a cache holding A and B and a filesystem holding A and C but not B,
\* the cycle's result and the rewritten cache hold no entry for B, and hold A
\* and C when no probe failed.
C2_RemovedDirectoryDropped ==
    (ReturnedOk /\ CacheLoaded /\ PathsOf(Previous) = {A, B} /\ Present(dirs) = {A, C})
    => /\ B \notin PathsOf(Result)
       /\ B \notin PathsOf(from_json(cache_file.text))
       /\ NoTaskFault => {A, C} \subseteq PathsOf(Result)

C4_OneRepositoryPerPath ==
    /\ \A i, j \in 1..Len(set) : set[i].path = set[j].path => i = j
    /\ ReturnedOk =>
          \A i, j \in 1..Len(Result) : Result[i].path = Result[j].path => i = j

\* C9: a cycle that finds the cache file unreadable or malformed completes as a
\* cycle without a cache does: it classifies every discovered path, returns that
\* result and leaves it in the cache file.
C9_CorruptCacheIsNoCache ==
    (Returned /\ repos.some /\ ~repos.v.ok)
    => /\ ret.v.ok
       /\ Len(set) = Len(FoundPaths(dirs))
       /\ cache_file.kind = "json"

\* C10: after every cycle that completed, also one with an empty result, the
\* cache file holds exactly the list the cycle returned.
C10_CompletedCycleWritesCache ==
    ReturnedOk
    => /\ cache_file.kind = "json"
       /\ from_json(cache_file.text) = Result

C10_Witness ==
    /\ ReturnedOk
    /\ CacheLoaded
    /\ Previous # <<>>
    /\ Result = <<>>
    /\ cache_file = JsonFile(<<>>)

-----------------------------------------------------------------------------
(* Properties of one classification (SpecClassify) *)

FirstStatusRead == cl_in.e.status1.spawn
FirstStatus == cl_in.e.status1.stdout
Started(probe) == \E i \in 1..Len(cl.out.log) : cl.out.log[i] = probe
BuildReturned == cl.call \in {"build", "build_from_last"} /\ cl.out.kind = "ok"

\* C5: when the first status output lacks the clean-tree marker, get_status
\* returns NeedCommit whatever ahead/behind markers the output carries, and has
\* started neither the remote query nor the fetch.
C5_DirtyTreeIsNeedCommit ==
    (cl.call = "get_status" /\ FirstStatusRead
     /\ ~contains(FirstStatus, "working tree clean"))
    => /\ cl.out.res = Ok("NeedCommit")
       /\ cl.out.log = <<"git status">>

C5_Witness ==
    /\ cl.call = "get_status"
    /\ FirstStatusRead
    /\ FirstStatus = {"git pull", "git push"}
    /\ cl_in.e.remote = Exited(0, {"origin"})
    /\ cl.out.res = Ok("NeedCommit")

\* C6: for a clean tree with a remote and every probe succeeding, the status
\* follows the markers of the status output in use (the first one when it carries
\* a marker, else the one read after the fetch): NeedPush with both markers or
\* the push marker alone, NeedPull with the pull marker alone, Clean with none.
C6_RemoteMarkersDecide ==
    (cl.call = "get_status" /\ cl.out.res.ok /\ FirstStatusRead
     /\ contains(FirstStatus, "working tree clean")
     /\ cl_in.e.remote.spawn /\ cl_in.e.remote.stdout # {})
    => LET marked == contains(FirstStatus, "git pull") \/ contains(FirstStatus, "git push")
           used == IF marked THEN FirstStatus ELSE cl_in.e.status2.stdout
           pull == "git pull" \in used
           push == "git push" \in used
       IN  cl.out.res.v = CASE pull /\ push -> "NeedPush"
                            [] push /\ ~pull -> "NeedPush"
                            [] pull /\ ~push -> "NeedPull"
                            [] OTHER -> "Clean"

C6_Witness ==
    /\ cl.call = "get_status"
    /\ FirstStatus = {"working tree clean"}
    /\ cl_in.e.remote = Exited(0, {"origin"})
    /\ cl_in.e.fetch = Child(TRUE, "exit", 0, TRUE)
    /\ cl_in.e.status2 = Exited(0, {"git pull", "git push"})
    /\ cl.out.res = Ok("NeedPush")

FetchIssued == \E i \in 1..Len(cl.out.log) : cl.out.log[i] = "git fetch"
CleanTreeSeen ==
    cl_in.e.status1.spawn /\ "working tree clean" \in cl_in.e.status1.stdout
RemoteListed == cl_in.e.remote.spawn /\ cl_in.e.remote.stdout # {}
MarkerSeen ==
    "git pull" \in cl_in.e.status1.stdout \/ "git push" \in cl_in.e.status1.stdout

\* C30: get_status starts the fetch exactly when the first status shows a clean
\* tree with neither marker and a remote is listed, and then as its third
\* probe; with a clean tree and no remote the result is Clean and no fetch is
\* started; with a clean tree, a remote and a marker the result follows the
\* first status output and no fetch is started.
C30_FetchOnlyWhenNothingKnown ==
    cl.call = "get_status" =>
      /\ FetchIssued <=> (CleanTreeSeen /\ RemoteListed /\ ~MarkerSeen)
      /\ FetchIssued =>
            /\ SubSeq(cl.out.log, 1, 3) = <<"git status", "git remote show", "git fetch">>
            /\ \A i \in 1..Len(cl.out.log) : cl.out.log[i] = "git fetch" => i = 3
      /\ (CleanTreeSeen /\ cl_in.e.remote.spawn /\ cl_in.e.remote.stdout = {}) =>
            /\ cl.out.res = Ok("Clean")
            /\ cl.out.log = <<"git status", "git remote show">>
      /\ (CleanTreeSeen /\ RemoteListed /\ MarkerSeen) =>
            /\ cl.out.res = Ok(IF "git push" \in cl_in.e.status1.stdout
                                THEN "NeedPush" ELSE "NeedPull")
            /\ cl.out.log = <<"git status", "git remote show">>

C30_Witness ==
    /\ cl.call = "get_status"
    /\ FetchIssued
    /\ cl_in.e.status1 = Exited(0, {"working tree clean"})
    /\ cl_in.e.remote = Exited(0, {"origin"})
    /\ cl_in.e.status2 = Exited(0, {"git pull"})
    /\ cl.out.log = <<"git status", "git remote show", "git fetch", "git status">>
    /\ cl.out.res = Ok("NeedPull")

\* A fetch that failed: not spawned, ended by the deadline or ctrl-c, or exited non-zero.
FetchFailed ==
    \/ ~cl_in.e.fetch.spawn
    \/ cl_in.e.fetch.race # "exit"
    \/ cl_in.e.fetch.exit # 0

\* C7: when a probe started after the first status probe fails (the remote
\* query, the fetch by timeout, interrupt, spawn failure or non-zero exit, or the
\* status query after the fetch), the repository's status is Timeout.
C7_LaterProbeFailureIsTimeout ==
    (BuildReturned
     /\ \/ Started("git remote show") /\ ~cl_in.e.remote.spawn
        \/ Started("git fetch") /\ FetchFailed
        \/ Len(cl.out.log) = 5 /\ ~cl_in.e.status2.spawn)
    => cl.out.repo.status = "Timeout"

\* C8: once the commit time is read, build and build_from_last return a
\* repository for every outcome of the status probes, its status is one of the
\* five, and it is Timeout whenever get_status ran and returned an error.
C8_StatusFailureIsTimeout ==
    (cl.call \in {"build", "build_from_last"} /\ get_last_commit_time(cl_in.e).ok
     /\ file_name(cl_in.path).some)
    => /\ cl.out.kind = "ok"
       /\ cl.out.repo.status \in GitStatus
       /\ (Started("git status") /\ ~get_status(cl_in.e).res.ok)
          => cl.out.repo.status = "Timeout"

C8_Witness ==
    /\ cl.call = "build"
    /\ Started("git fetch")
    /\ cl_in.e.fetch.race = "deadline"
    /\ cl.out.kind = "ok"
    /\ cl.out.repo.status = "Timeout"

-----------------------------------------------------------------------------
(* More properties of the reconcile cycle (Spec) *)

ErrLen == ret.v.v[2]
Succeeded(i) == set[i].out.kind = "ok"

\* C11: the list a cycle returns is ordered by last-commit time, newest first:
\* no entry has a smaller time than the entry that follows it.
C11_ResultNewestFirst ==
    ReturnedOk =>
        \A i \in 1..(Len(Result) - 1) :
            Result[i].last_commit_time >= Result[i + 1].last_commit_time

C11_Witness ==
    /\ ReturnedOk
    /\ CacheLoaded
    /\ Len(Result) >= 3
    /\ Result[1].last_commit_time > Result[Len(Result)].last_commit_time

\* C12: every spawned task ends in exactly one of two ways: its repository is in
\* the result, or the error count went up by one and its path is not in the
\* result; so the result's length plus the error count is the number of tasks.
C12_TaskEndsOneOfTwoWays ==
    ReturnedOk =>
        /\ Len(Result) + ErrLen = Len(set)
        /\ \A i \in 1..Len(set) :
              IF Succeeded(i)
              THEN \E k \in 1..Len(Result) : Result[k] = set[i].out.repo
              ELSE set[i].path \notin PathsOf(Result)

C31_SaveOnlyAfterEveryTaskJoined ==
    [][/\ (pc = "join" /\ pc' # "join") => \A i \in 1..Len(set) : set[i].done
       /\ (pc = "join" /\ \E i \in 1..Len(set) : ~set[i].done) =>
              cache_file' = cache_file
       /\ (pc \in {"start", "load"}) => cache_file' = cache_file]_vars

C31_Witness ==
    /\ pc = "returned"
    /\ Len(set) = 3
    /\ \A i \in 1..Len(set) : set[i].done
    /\ err_len = 1
    /\ cache_file = JsonFile(to_json(reverse(sort_by_key(git_repos))))
    /\ repos.v.ok /\ repos.v.v.some /\ to_json(repos.v.v.v) # cache_file.text

\* The lines of fd's output that are not empty.
NonEmptyLines == SelectSeq(FdLines(dirs), LAMBDA line : line # EmptyPath)
WithoutLast(line) == AbsPath(SubSeq(line.segs, 1, Len(line.segs) - 1))

\* C29: when discovery succeeds, the paths it returns are, line by line of the
\* search tool's output and in that order, the directory that holds the control
\* directory of the line; the empty line gives nothing and no control
\* directory is among the paths.
C29_SearchReturnsParentsInOrder ==
    pc = "load" =>
      /\ Len(all_git_paths) = Len(NonEmptyLines)
      /\ Len(NonEmptyLines) = Len(FdLines(dirs)) - 1
      /\ \A i \in 1..Len(all_git_paths) :
            /\ all_git_paths[i] = WithoutLast(NonEmptyLines[i])
            /\ \A j \in 1..Len(NonEmptyLines) : all_git_paths[i] # NonEmptyLines[j]

C29_Witness ==
    /\ pc = "load"
    /\ Len(all_git_paths) = 3
    /\ all_git_paths[1] = all_git_paths[2]
    /\ all_git_paths[2] # all_git_paths[3]

-----------------------------------------------------------------------------
(* SpecTwice: get_all_git_repo as a function of the filesystem, the cache  *)
(* file and the outcome of every subprocess, applied twice in a row with   *)
(* the same filesystem and the same outcomes.  The first run starts from   *)
(* no cache file, a damaged one, or any cache of up to MaxCached entries.  *)

MaxCached == 2

\* What the discovery command does: fd lists the directories, bash cannot be
\* started, or bash runs and fd is not installed (exit 127, nothing printed).
FdOutcomes == {"ok", "spawn", "missing"}
FdProc(d, fd) ==
    CASE fd = "ok" -> Exited(0, FdLines(d))
      [] fd = "spawn" -> SpawnFailed
      [] OTHER -> Exited(127, <<EmptyPath>>)

NoFaults == [p \in Paths |-> "none"]
FaultCount(o) ==
    Cardinality({p \in Paths : o.fault_of[p] # "none"})
        + (IF o.fd = "ok" THEN 0 ELSE 1) + (IF o.writable THEN 0 ELSE 1)
TwiceOracles ==
    {o \in [fd : FdOutcomes, writable : BOOLEAN,
            fault_of : [Paths -> {"none"} \cup CycleFaults]] :
        FaultCount(o) <= MaxFaults}

\* A cache written by an earlier cycle: entries newest first, each with the
\* status that cycle found and the time of the directory's last commit.
CachedEntries ==
    {GitRepo(file_name(p).v, p, status, HeadTime(p)) : p \in Paths, status \in GitStatus}
NewestFirst(list) ==
    \A i \in 1..(Len(list) - 1) :
        list[i].last_commit_time >= list[i + 1].last_commit_time
InitialCaches ==
    {list \in UNION {[1..n -> CachedEntries] : n \in 0..MaxCached} : NewestFirst(list)}
InitialFiles == {NoFile, Malformed} \cup {JsonFile(to_json(list)) : list \in InitialCaches}

\* The order in which the tasks end: as spawned, or the last spawned first.
JoinOrders == {"spawned", "reversed"}
JoinOrder(n, order) ==
    IF order = "spawned" THEN [i \in 1..n |-> i] ELSE [i \in 1..n |-> n + 1 - i]

\* gitrepo.rs 236-251, 293-308: the join loop over the tasks in the order they end
RECURSIVE join_loop(_, _)
join_loop(outs, order) ==
    IF order = <<>> THEN [git_repos |-> <<>>, err_len |-> 0]
    ELSE LET before == join_loop(outs, SubSeq(order, 1, Len(order) - 1))
             out == outs[order[Len(order)]]
         IN  IF out.kind = "ok"
             THEN [before EXCEPT !.git_repos = Append(@, out.repo)]
             ELSE [before EXCEPT !.err_len = @ + 1]

\* gitrepo.rs 259-323 (and 219-257 when there is no cache): one whole cycle.
get_all_git_repo(d, file, o, order) ==
    LET found == search_all_git_path(FdProc(d, o.fd)) IN
    IF ~found.ok
    THEN [ret |-> Err(found.err), file |-> file, loaded |-> None]
    ELSE
    LET loaded == load_all_repo(file) IN
    IF ~loaded.ok
    THEN [ret |-> Err(loaded.err), file |-> file, loaded |-> Some(loaded)]
    ELSE
    LET tasks == IF loaded.v.some THEN spawn_reconcile(loaded.v.v, found.v)
                 ELSE spawn_generate(found.v)
        outs == [i \in 1..Len(tasks) |->
                    run_task(tasks[i], WorldEnv(d, tasks[i].path, o.fault_of[tasks[i].path]))]
        joined == join_loop(outs, JoinOrder(Len(tasks), order))
        res_repos == reverse(sort_by_key(joined.git_repos))
        saved == save_all_git_repo(file, res_repos, o.writable)
    IN  [ret |-> IF saved.res.ok THEN Ok(<<res_repos, joined.err_len>>)
                 ELSE Err(saved.res.err),
         file |-> saved.file,
         loaded |-> Some(loaded)]

TwiceInit ==
    /\ dirs \in DirConfigs
    /\ cache_file \in InitialFiles
    /\ rc \in {[oracle |-> o, first_file |-> cache_file, runs |-> <<>>] : o \in TwiceOracles}
    /\ pc = "idle"
    /\ all_git_paths = <<>>
    /\ repos = None
    /\ set = <<>>
    /\ git_repos = <<>>
    /\ err_len = 0
    /\ ret = None
    /\ data_tx = <<>>
    /\ cycles = MaxCycles
    /\ faults = 0
    /\ cl_in = [path |-> A, e |-> CHOOSE e \in ProbeOutcomes : TRUE]
    /\ cl = NoCall
    /\ rn = Unused
    /\ app = Unused
    /\ sc = Unused
    /\ inp = Unused
    /\ flt = Unused

\* lib.rs 271-284: the worker runs a cycle and sends what it returned.
RunCycle ==
    /\ Len(rc.runs) < 2
    /\ \E order \in JoinOrders :
          LET run == get_all_git_repo(dirs, cache_file, rc.oracle, order) IN
          /\ cache_file' = run.file
          /\ rc' = [rc EXCEPT !.runs =
                        Append(@, [ret |-> run.ret, loaded |-> run.loaded,
                                   sent |-> worker_message(run.ret)])]
    /\ UNCHANGED <<dirs, pc, all_git_paths, repos, set, git_repos, err_len, ret,
                   data_tx, cycles, faults, cl_in, cl, rn, app, ui_vars>>

TwiceNext == RunCycle

SpecTwice == TwiceInit /\ [][TwiceNext]_vars

-----------------------------------------------------------------------------
(* Properties of two runs in a row (SpecTwice) *)

RanTwice == Len(rc.runs) = 2
StatusByPath(list) == {<<list[i].path, list[i].status>> : i \in 1..Len(list)}

C15_SecondRunChangesNothing ==
    RanTwice =>
        /\ PathsOf(rc.runs[2].sent[1]) = PathsOf(rc.runs[1].sent[1])
        /\ StatusByPath(rc.runs[2].sent[1]) = StatusByPath(rc.runs[1].sent[1])

C15_Witness ==
    /\ RanTwice
    /\ rc.first_file.kind = "json"
    /\ Len(rc.first_file.text) >= 1
    /\ rc.oracle.fault_of # NoFaults
    /\ StatusByPath(rc.runs[1].sent[1]) # StatusByPath(from_json(rc.first_file.text))
    /\ Len(rc.runs[2].sent[1]) >= 2

\* C20: when the discovery command fails (bash cannot be started, or fd is
\* missing) the cycle returns a value and the worker sends an empty repository
\* list, whether or not a cache file exists.
C20_FailedDiscoveryPublishesNothing ==
    \A k \in 1..Len(rc.runs) :
        rc.oracle.fd # "ok" => rc.runs[k].sent[1] = <<>>

-----------------------------------------------------------------------------
(* SpecRunner: one call of run_command, run_command_timeout or              *)
(* run_command_timeout_no, step by step, with the child process it starts. *)
(* The child ends on its own at any moment; select! takes the child's end  *)
(* when it has ended, and the deadline or ctrl-c at any moment.            *)

Runners == {"run_command", "run_command_timeout", "run_command_timeout_no"}
TimeoutRunners == {"run_command_timeout", "run_command_timeout_no"}
ExitCodes == {0, 1}
Stdouts == {{}, {"working tree clean"}}

\* What the call at hand returns for the way its child went.
runner_result(r) ==
    CASE r.fn = "run_command" ->
            run_command(IF r.spawn_ok THEN Exited(r.exit, r.stdout) ELSE SpawnFailed)
      [] r.fn = "run_command_timeout" ->
            run_command_timeout(Child(r.spawn_ok, r.race, r.exit, r.kill_ok), r.stdout)
      [] OTHER ->
            run_command_timeout_no(Child(r.spawn_ok, r.race, r.exit, r.kill_ok))

RunnerInit ==
    /\ rn \in [fn : Runners, pc : {"call"}, child : {"none"}, race : {"none"},
                spawn_ok : BOOLEAN, exit : ExitCodes, stdout : Stdouts,
                kill_ok : BOOLEAN, ret : {None}]
    /\ dirs = [p \in Paths |-> 0]
    /\ cache_file = NoFile
    /\ pc = "idle"
    /\ all_git_paths = <<>>
    /\ repos = None
    /\ set = <<>>
    /\ git_repos = <<>>
    /\ err_len = 0
    /\ ret = None
    /\ data_tx = <<>>
    /\ cycles = MaxCycles
    /\ faults = 0
    /\ cl_in = [path |-> A, e |-> CHOOSE e \in ProbeOutcomes : TRUE]
    /\ cl = NoCall
    /\ rc = Unused
    /\ app = Unused
    /\ sc = Unused
    /\ inp = Unused
    /\ flt = Unused

runner_frame == <<cycle_vars, cl_in, cl, rc, app, ui_vars>>

\* utils.rs 44-47, 66-73, 100-107: bash is spawned, or the call returns the error.
SpawnChild ==
    /\ rn.pc = "call"
    /\ rn' = IF rn.spawn_ok
             THEN [rn EXCEPT !.pc = "wait", !.child = "running"]
             ELSE [rn EXCEPT !.pc = "returned", !.ret = Some(runner_result(rn))]
    /\ UNCHANGED runner_frame

\* The child ends by itself.
ChildExits ==
    /\ rn.child = "running"
    /\ rn' = [rn EXCEPT !.child = "exited"]
    /\ UNCHANGED runner_frame

\* utils.rs 47-50: Command::output returns once the child has ended.
OutputReturns ==
    /\ rn.pc = "wait"
    /\ rn.fn = "run_command"
    /\ rn.child = "exited"
    /\ rn' = [rn EXCEPT !.pc = "returned", !.race = "exit",
                        !.ret = Some(runner_result([rn EXCEPT !.race = "exit"]))]
    /\ UNCHANGED runner_frame

\* utils.rs 80-87, 114-115: select! takes the branch of child.wait().
ChildWins ==
    /\ rn.pc = "wait"
    /\ rn.fn \in TimeoutRunners
    /\ rn.child = "exited"
    /\ rn' = [rn EXCEPT !.pc = "returned", !.race = "exit",
                        !.ret = Some(runner_result([rn EXCEPT !.race = "exit"]))]
    /\ UNCHANGED runner_frame

\* utils.rs 90, 126: select! takes the branch of timeout(.., ctrl_c).
DeadlineOrInterruptWins(why) ==
    /\ rn.pc = "wait"
    /\ rn.fn \in TimeoutRunners
    /\ rn' = [rn EXCEPT !.pc = "kill", !.race = why]
    /\ UNCHANGED runner_frame

\* utils.rs 91, 127: child.kill().await ends a running child, or fails.
KillChild ==
    /\ rn.pc = "kill"
    /\ rn' = [rn EXCEPT !.pc = "after_kill",
                        !.child = IF rn.kill_ok /\ rn.child = "running"
                                  THEN "killed" ELSE rn.child]
    /\ UNCHANGED runner_frame

\* utils.rs 91-92, 127-128: the ? on the kill, then the timed-out error.
ReturnAfterKill ==
    /\ rn.pc = "after_kill"
    /\ rn' = [rn EXCEPT !.pc = "returned", !.ret = Some(runner_result(rn))]
    /\ UNCHANGED runner_frame

RunnerNext ==
    \/ SpawnChild
    \/ ChildExits
    \/ OutputReturns
    \/ ChildWins
    \/ \E why \in {"deadline", "interrupt"} : DeadlineOrInterruptWins(why)
    \/ KillChild
    \/ ReturnAfterKill

SpecRunner == RunnerInit /\ [][RunnerNext]_vars

-----------------------------------------------------------------------------
(* Properties of the process runners (SpecRunner) *)

RunnerReturned == rn.pc = "returned"
TimedOut == Some(Err("Command timed out"))
LostRace == rn.race \in {"deadline", "interrupt"}

C19_NonZeroExitIsFailure ==
    (RunnerReturned /\ rn.spawn_ok /\ rn.race = "exit" /\ rn.exit # 0) =>
        /\ ~rn.ret.v.ok
        /\ rn.ret.v # Err("spawn")

-----------------------------------------------------------------------------
(* SpecApp: App::run.  The foreground loop (take a result, draw, handle one *)
(* intent) and the worker task (its loop around the reconcile cycle) run   *)
(* side by side and talk over run_tx, search_data_tx and data_tx.  The     *)
(* cycle is the one of Spec, step by step, over a fixed filesystem.  Of    *)
(* the intents Quit, StartRefresh and the entry to and exit from the       *)
(* filter touch this state; Quit and StartRefresh are read in Normal mode. *)

MaxKeys == 2

AppDirs == {d \in DirConfigs : \A p \in Paths : d[p] <= 1}

\* lib.rs 304-309: the StartRefresh arm: the flag after it, and whether it sends.
start_refresh_unguarded(refresh_repop) == [refresh_repop |-> TRUE, send |-> TRUE]

start_refresh_keeps_flag(refresh_repop) ==
    IF ~refresh_repop THEN [refresh_repop |-> FALSE, send |-> TRUE]
    ELSE [refresh_repop |-> refresh_repop, send |-> FALSE]

start_refresh_without_send(refresh_repop) ==
    IF ~refresh_repop THEN [refresh_repop |-> TRUE, send |-> FALSE]
    ELSE [refresh_repop |-> refresh_repop, send |-> FALSE]

start_refresh(refresh_repop) ==
    IF ~refresh_repop THEN [refresh_repop |-> TRUE, send |-> TRUE]
    ELSE [refresh_repop |-> refresh_repop, send |-> FALSE]

\* lib.rs 253-254, 324-331
AppInit ==
    /\ dirs \in AppDirs
    /\ cache_file = NoFile
    /\ pc = "while"
    /\ all_git_paths = <<>>
    /\ repos = None
    /\ set = <<>>
    /\ git_repos = <<>>
    /\ err_len = 0
    /\ ret = None
    /\ data_tx = <<>>
    /\ cycles = 0
    /\ faults = 0
    /\ cl_in = [path |-> A, e |-> CHOOSE e \in ProbeOutcomes : TRUE]
    /\ cl = NoCall
    /\ rc = Unused
    /\ rn = Unused
    /\ app = [refresh_repop |-> TRUE, repos |-> <<>>, runp |-> TRUE,
              run_mode |-> "Normal",
              run_tx |-> <<>>, search_data_tx |-> <<>>,
              worker_runp |-> TRUE, get_datap |-> TRUE,
              keys |-> 0, ignored |-> 0, finished |-> {}]
    /\ sc = Unused
    /\ inp = Unused
    /\ flt = Unused

cycle_locals == <<all_git_paths, repos, set, git_repos, err_len, ret>>

\* lib.rs 256-262: the loop condition, then run_rx.try_recv().
WorkerRecvRun ==
    /\ pc = "while"
    /\ IF ~app.worker_runp
       THEN /\ pc' = "ended"
            /\ app' = app
       ELSE /\ pc' = "search_data_rx"
            /\ app' = IF app.run_tx = <<>> THEN app
                      ELSE [app EXCEPT !.worker_runp = Head(app.run_tx),
                                       !.run_tx = Tail(app.run_tx)]
    /\ UNCHANGED <<dirs, cache_file, cycle_locals, data_tx, cycles, faults,
                   cl_in, cl, rc, rn, ui_vars>>

\* lib.rs 264-275: search_data_rx.try_recv(), then if get_datap the cycle starts.
WorkerRecvSearch ==
    /\ pc = "search_data_rx"
    /\ LET get_datap == IF app.search_data_tx = <<>> THEN app.get_datap
                        ELSE Head(app.search_data_tx)
       IN  /\ app' = [app EXCEPT !.get_datap = get_datap,
                                 !.search_data_tx =
                                     IF @ = <<>> THEN @ ELSE Tail(@)]
           /\ pc' = IF get_datap THEN "start" ELSE "while"
           /\ cycles' = IF get_datap THEN cycles + 1 ELSE cycles
    /\ UNCHANGED <<dirs, cache_file, cycle_locals, data_tx, faults, cl_in, cl, rc, rn, ui_vars>>

\* lib.rs 275-282: the cycle returned; its result, or the empty list, is sent.
WorkerSend ==
    /\ pc = "returned"
    /\ data_tx' = Append(data_tx, worker_message(ret.v))
    /\ app' = [app EXCEPT !.finished =
                   IF ret.v.ok THEN @ \cup {ret.v.v[1]} ELSE @]
    /\ pc' = "sent"
    /\ all_git_paths' = <<>>
    /\ repos' = None
    /\ set' = <<>>
    /\ git_repos' = <<>>
    /\ err_len' = 0
    /\ ret' = None
    /\ UNCHANGED <<dirs, cache_file, cycles, faults, cl_in, cl, rc, rn, ui_vars>>

\* lib.rs 283
WorkerClear ==
    /\ pc = "sent"
    /\ app' = [app EXCEPT !.get_datap = FALSE]
    /\ pc' = "while"
    /\ UNCHANGED <<dirs, cache_file, cycle_locals, data_tx, cycles, faults,
                   cl_in, cl, rc, rn, ui_vars>>

\* lib.rs 289-295: data_rx.try_recv() found a message.
ForegroundRecv ==
    /\ app.runp
    /\ data_tx # <<>>
    /\ app' = [app EXCEPT !.repos = Head(data_tx)[1], !.refresh_repop = FALSE]
    /\ data_tx' = Tail(data_tx)
    /\ UNCHANGED <<dirs, cache_file, pc, cycle_locals, cycles, faults, cl_in, cl, rc, rn, ui_vars>>

\* lib.rs 304-309: the user asks for a refresh.
StartRefresh ==
    /\ app.runp
    /\ app.run_mode = "Normal"
    /\ app.keys < MaxKeys
    /\ LET after == start_refresh(app.refresh_repop) IN
       app' = [app EXCEPT !.keys = @ + 1,
                          !.refresh_repop = after.refresh_repop,
                          !.search_data_tx = IF after.send THEN Append(@, TRUE) ELSE @,
                          !.ignored = IF after.send THEN @ ELSE @ + 1]
    /\ UNCHANGED <<cycle_vars, cl_in, cl, rc, rn, ui_vars>>

\* lib.rs 300-303: the Quit arm
quit_without_stop(a) == [a EXCEPT !.runp = FALSE]

quit(a) == [a EXCEPT !.run_tx = Append(@, FALSE), !.runp = FALSE]

\* lib.rs 300-303: the user quits.
Quit ==
    /\ app.runp
    /\ app.run_mode = "Normal"
    /\ app' = quit(app)
    /\ UNCHANGED <<cycle_vars, cl_in, cl, rc, rn, ui_vars>>

\* lib.rs 310-314: the StartFilter arm
start_filter_drops_list(a) ==
    IF ~a.refresh_repop THEN [a EXCEPT !.run_mode = "Editing", !.repos = <<>>] ELSE a

start_filter(a) ==
    IF ~a.refresh_repop THEN [a EXCEPT !.run_mode = "Editing"] ELSE a

\* lib.rs 310-314: the user asks for the filter; refused while a refresh runs.
StartFilter ==
    /\ app.runp
    /\ app.run_mode = "Normal"
    /\ ~app.refresh_repop
    /\ app' = start_filter(app)
    /\ UNCHANGED <<cycle_vars, cl_in, cl, rc, rn, ui_vars>>

\* lib.rs 136: Esc ends the editing of the filter.
ExitFilter ==
    /\ app.runp
    /\ app.run_mode = "Editing"
    /\ app' = [app EXCEPT !.run_mode = "Normal"]
    /\ UNCHANGED <<cycle_vars, cl_in, cl, rc, rn, ui_vars>>

\* lib.rs 126-147, 310-316: every other key: navigation falls to `_ => {}`, a
\* refused StartFilter does nothing, a key typed into the filter changes only
\* the input text and the cursor, which this specification does not keep.
OtherIntent ==
    /\ app.runp
    /\ UNCHANGED vars

AppNext ==
    \/ WorkerRecvRun
    \/ WorkerRecvSearch
    \/ SearchAllGitPath
    \/ LoadAndSpawn
    \/ \E i \in 1..Len(set) : JoinNext(i)
    \/ SortAndSave
    \/ WorkerSend
    \/ WorkerClear
    \/ ForegroundRecv
    \/ StartRefresh
    \/ Quit
    \/ StartFilter
    \/ ExitFilter
    \/ OtherIntent

SpecApp == AppInit /\ [][AppNext]_vars

\* The worker task is polled again and again by the runtime and every
\* subprocess it waits for ends, so each of its steps is taken once it stays
\* possible; the foreground loop comes back to data_rx.try_recv() at least
\* every 50 ms (lib.rs 129) while it runs.  The user's intents are under no
\* such obligation.
AppFairness ==
    /\ WF_vars(WorkerRecvRun)
    /\ WF_vars(WorkerRecvSearch)
    /\ WF_vars(SearchAllGitPath)
    /\ WF_vars(LoadAndSpawn)
    /\ WF_vars(\E i \in 1..Len(set) : JoinNext(i))
    /\ WF_vars(SortAndSave)
    /\ WF_vars(WorkerSend)
    /\ WF_vars(WorkerClear)
    /\ WF_vars(ForegroundRecv)

SpecAppFair == SpecApp /\ AppFairness

-----------------------------------------------------------------------------
(* Properties of the foreground and the worker (SpecApp) *)

InCycle == pc \in {"start", "load", "join", "returned"}
\* Cycles asked for and not yet started: the requests in the channel, and the
\* worker's own get_datap before the cycle it stands for.
Requested ==
    Len(app.search_data_tx)
        + (IF pc \in {"while", "search_data_rx"} /\ app.get_datap THEN 1 ELSE 0)

\* C16: while a cycle is in progress or asked for, the foreground's refresh flag
\* is set, so a refresh intent sends no request; at most one cycle is running
\* or requested at any time.
C16_RefreshIgnoredDuringCycle ==
    /\ (IF InCycle THEN 1 ELSE 0) + Requested <= 1
    /\ (InCycle \/ Requested > 0) => app.refresh_repop
    /\ app.keys = app.ignored + (cycles - 1) + Requested

C16_Witness ==
    /\ pc = "join"
    /\ cycles = 2
    /\ app.ignored >= 1
    /\ app.search_data_tx = <<>>

\* C17: the foreground's list is the initial empty list, or the list a finished
\* cycle returned (every task joined, sorted newest first), or the empty list
\* sent for a failed cycle; it is never the cycle's partly filled git_repos.
C17_ForegroundListIsWholeResult ==
    /\ app.repos = <<>> \/ app.repos \in app.finished
    /\ \A i \in 1..Len(data_tx) :
          data_tx[i][1] = <<>> \/ data_tx[i][1] \in app.finished
    /\ ReturnedOk =>
          /\ \A i \in 1..Len(set) : set[i].done
          /\ Result = reverse(sort_by_key(git_repos))

C17_Witness ==
    /\ Len(app.repos) >= 2
    /\ pc = "join"
    /\ Len(git_repos) = 1
    /\ git_repos[1] # app.repos[1]

\* A failed cycle is answered with the empty list and the count 0.
FailedCycleSendsEmpty ==
    [][(pc = "returned" /\ pc' = "sent" /\ ~ret.v.ok)
          => data_tx' = Append(data_tx, <<<<>>, 0>>)]_vars

\* C32 as stated: the refresh flag, set for the initial cycle and by every
\* accepted refresh intent, is eventually cleared by the delivery of a result
\* message, and a failed cycle sends the empty list.
C32_EveryCycleIsDelivered ==
    /\ app.refresh_repop ~> ~app.refresh_repop
    /\ FailedCycleSendsEmpty

\* C32 amended: the same, as long as the user does not quit first: a
\* foreground that has left its loop takes no message any more.
C32_EveryCycleIsDeliveredUnlessQuit ==
    /\ app.refresh_repop ~> (~app.refresh_repop \/ ~app.runp)
    /\ FailedCycleSendsEmpty

C32_Witness ==
    /\ app.runp
    /\ ~app.refresh_repop
    /\ cycles = 2
    /\ faults = 1
    /\ app.finished # {}
    /\ app.repos = <<>>
    /\ pc = "while"

C34_ListChangesOnlyOnReceive ==
    [][app'.repos # app.repos =>
          /\ app.runp
          /\ data_tx # <<>>
          /\ app'.repos = Head(data_tx)[1]
          /\ data_tx' = Tail(data_tx)
          /\ pc' = pc]_vars

C34_Witness ==
    /\ app.run_mode = "Editing"
    /\ app.repos # <<>>
    /\ cycles = 1
    /\ app.keys = 0

\* C36: once the worker has taken the stop command (its runp is false), no
\* step starts a reconcile cycle.
C36_NoCycleAfterStop ==
    [][~app.worker_runp => ~(pc # "start" /\ pc' = "start")]_vars

\* C37: the result channel never holds more than one message, and while the
\* foreground's refresh flag is false the worker runs no cycle, no request
\* waits in the request channel or in the worker's get_datap, and the result
\* channel is empty.
C37_OneMessageAndIdleWhenFlagClear ==
    /\ Len(data_tx) <= 1
    /\ ~app.refresh_repop =>
          /\ ~InCycle
          /\ app.search_data_tx = <<>>
          /\ pc \in {"while", "search_data_rx"} => ~app.get_datap
          /\ data_tx = <<>>

C37_Witness ==
    /\ ~app.refresh_repop
    /\ pc = "sent"
    /\ app.get_datap
    /\ cycles = 2
    /\ app.runp

-----------------------------------------------------------------------------
(* Text.  A string is the sequence of its characters, each a one-character *)
(* string; every character the model uses is ASCII, so a byte offset is a  *)
(* character index.                                                        *)

\* char::to_ascii_lowercase, for the capitals the model's texts use
to_ascii_lowercase(c) ==
    CASE c = "B" -> "b" [] c = "C" -> "c" [] c = "F" -> "f" [] c = "H" -> "h"
      [] c = "N" -> "n" [] c = "P" -> "p" [] c = "T" -> "t" [] OTHER -> c

\* str::to_lowercase
to_lowercase(text) == [i \in 1..Len(text) |-> to_ascii_lowercase(text[i])]

\* str::find(char): the offset of the first occurrence, counted from 0
find(text, c) ==
    IF \E i \in 1..Len(text) : text[i] = c
    THEN Some((CHOOSE i \in 1..Len(text) :
                  text[i] = c /\ \A j \in 1..(i - 1) : text[j] # c) - 1)
    ELSE None

\* input.rs 143-151
complection_all ==
    << <<"p", "a", "t", "h">>,
       <<"m", "a", "t", "c", "h", "_", "c", "a", "s", "e">>,
       <<"N", "e", "e", "d", "P", "u", "l", "l">>,
       <<"C", "l", "e", "a", "n">>,
       <<"N", "e", "e", "d", "P", "u", "s", "h">>,
       <<"N", "e", "e", "d", "C", "o", "m", "m", "i", "t">>,
       <<"T", "i", "m", "e", "o", "u", "t">> >>

\* The state of every variable the specifications below do not use.
CoreUnused ==
    /\ dirs = [p \in Paths |-> 0]
    /\ cache_file = NoFile
    /\ pc = "idle"
    /\ all_git_paths = <<>>
    /\ repos = None
    /\ set = <<>>
    /\ git_repos = <<>>
    /\ err_len = 0
    /\ ret = None
    /\ data_tx = <<>>
    /\ cycles = MaxCycles
    /\ faults = 0
    /\ cl_in = [path |-> A, e |-> CHOOSE e \in ProbeOutcomes : TRUE]
    /\ cl = NoCall
    /\ rc = Unused
    /\ rn = Unused
    /\ app = Unused

core_vars == <<cycle_vars, cl_in, cl, rc, rn, app>>

-----------------------------------------------------------------------------
(* SpecScore: one call of Input::calc_item_score on every query of up to   *)
(* MaxQuery characters and every keyword.                                  *)

MaxQuery == 3

QueryChars == {"p", "s", "d", "m", "c", "l", "N"}
Queries == UNION {[1..n -> QueryChars] : n \in 0..MaxQuery}
Keywords == {complection_all[i] : i \in 1..Len(complection_all)}

\* input.rs 124-137: the loop over the query's characters (score is a u16)
RECURSIVE score_chars(_, _, _, _)
score_chars(input, item, new_pos, score) ==
    IF input = <<>> THEN score
    ELSE LET c == Head(input)
             item_find_str == to_lowercase(item)
             found == find(SubSeq(item_find_str, new_pos + 1, Len(item_find_str)),
                           to_ascii_lowercase(c))
         IN  IF ~found.some THEN 0
             ELSE LET pos == found.v
                      item_char == item[pos + 1]
                      bonus == (Len(item) - pos + 1) \div Len(item)
                  IN  score_chars(Tail(input), item, pos + 1,
                                  (score + bonus + (IF c = item_char THEN 2 ELSE 1))
                                      % 65536)

\* input.rs 115-140
score_empty_is_zero(input, item) ==
    IF input = <<>> THEN 0 ELSE score_chars(input, item, 0, 0)

calc_item_score(input, item) ==
    IF input = <<>> THEN 1 ELSE score_chars(input, item, 0, 0)

ScoreInit ==
    /\ sc \in [pc : {"call"}, input : Queries, item : Keywords, score : {0}]
    /\ inp = Unused
    /\ flt = Unused
    /\ CoreUnused

CalcItemScore ==
    /\ sc.pc = "call"
    /\ sc' = [sc EXCEPT !.pc = "returned", !.score = calc_item_score(sc.input, sc.item)]
    /\ UNCHANGED <<core_vars, inp, flt>>

ScoreNext == CalcItemScore

SpecScore == ScoreInit /\ [][ScoreNext]_vars

-----------------------------------------------------------------------------
(* Properties of the scorer (SpecScore) *)

\* The offsets (from 0) at which the characters of query match in text when each
\* is looked for after the match of the one before; None when one is not found.
RECURSIVE MatchOffsets(_, _, _)
MatchOffsets(query, text, from) ==
    IF query = <<>> THEN Some(<<>>)
    ELSE LET found == find(SubSeq(text, from + 1, Len(text)), Head(query)) IN
         IF ~found.some THEN None
         ELSE LET at == from + found.v
                  rest == MatchOffsets(Tail(query), text, at + 1)
              IN  IF rest.some THEN Some(<<at>> \o rest.v) ELSE None

Folded(text) == to_lowercase(text)
IsSubsequence(query, text) == MatchOffsets(query, text, 0).some

RECURSIVE SumOf(_)
SumOf(numbers) == IF numbers = <<>> THEN 0 ELSE Head(numbers) + SumOf(Tail(numbers))

ScoreReturned == sc.pc = "returned"

\* C24: for a non-empty query the score is 0 exactly when the case-folded query
\* is not a subsequence of the case-folded candidate, and positive when it is.
C24_ZeroIffNotSubsequence ==
    (ScoreReturned /\ sc.input # <<>>) =>
        /\ sc.score = 0 <=> ~IsSubsequence(Folded(sc.input), Folded(sc.item))
        /\ sc.score >= 0

\* C26: the score of a matching query is the sum, over its characters, of
\* (len(candidate) - p + 1) / len(candidate) by integer division, p the offset in
\* the candidate where the character matched, plus 2 when the query character is
\* the candidate's own character at p and plus 1 otherwise.
C26_ScoreIsSumOverMatches ==
    (ScoreReturned /\ sc.input # <<>> /\ IsSubsequence(Folded(sc.input), Folded(sc.item)))
    => LET p == MatchOffsets(Folded(sc.input), Folded(sc.item), 0).v
           n == Len(sc.item)
       IN  sc.score =
               SumOf([k \in 1..Len(sc.input) |->
                         ((n - p[k] + 1) \div n)
                             + (IF sc.input[k] = sc.item[p[k] + 1] THEN 2 ELSE 1)])

-----------------------------------------------------------------------------
(* SpecInput: the Input component and its CompletionPopup.  The user types *)
(* and deletes up to MaxEdits characters, moves the cursor, walks the      *)
(* popup and accepts up to MaxAccepts completions; after every key event the completion list is       *)
(* recomputed by update_complection.  An arithmetic overflow panics in a   *)
(* build with overflow checks and wraps in a build without them.           *)

MaxEdits == 3
MaxAccepts == 1

InputChars == {"+", " ", "N", "e"}
OtherKeys == {"Tab", "BackTab", "Enter", "F1"}

\* str::split(char): the pieces between the separators, "" included
RECURSIVE split(_, _)
split(text, sep) ==
    IF \A i \in 1..Len(text) : text[i] # sep THEN <<text>>
    ELSE LET at == find(text, sep).v IN
         <<SubSeq(text, 1, at)>> \o split(SubSeq(text, at + 2, Len(text)), sep)

last(list) == list[Len(list)]

\* input.rs 102-104
clamp_cursor(input, new_cursor_pos) ==
    IF new_cursor_pos > Len(input) THEN Len(input) ELSE new_cursor_pos

saturating_sub(a, b) == IF a >= b THEN a - b ELSE 0

\* input.rs 52-56
enter_char(i, new_char) ==
    LET input == SubSeq(i.input, 1, i.cursor_position) \o <<new_char>>
                     \o SubSeq(i.input, i.cursor_position + 1, Len(i.input))
    IN  [i EXCEPT !.input = input,
                  !.cursor_position = clamp_cursor(input, i.cursor_position + 1)]

\* input.rs 47-50
enter_string(i, new_str) ==
    LET input == i.input \o new_str IN
    [i EXCEPT !.input = input,
              !.cursor_position = clamp_cursor(input, i.cursor_position + Len(new_str))]

\* input.rs 80-100
delete_char(i) ==
    IF i.cursor_position # 0
    THEN LET input == SubSeq(i.input, 1, i.cursor_position - 1)
                          \o SubSeq(i.input, i.cursor_position + 1, Len(i.input))
         IN  [i EXCEPT !.input = input,
                       !.cursor_position =
                           clamp_cursor(input, saturating_sub(i.cursor_position, 1))]
    ELSE i

\* input.rs 58-78.  current_index - n below zero: a panic with overflow checks,
\* else a wrapped (huge) count, so take() keeps every character.
delete_n_char(i, n) ==
    IF i.cursor_position # 0 /\ i.cursor_position + 1 >= n
    THEN IF i.cursor_position < n /\ i.overflow_checks
         THEN [i EXCEPT !.pc = "panicked"]
         ELSE LET kept == IF i.cursor_position < n THEN Len(i.input)
                          ELSE i.cursor_position - n
                  input == SubSeq(i.input, 1, kept)
                               \o SubSeq(i.input, i.cursor_position + 1, Len(i.input))
              IN  [i EXCEPT !.input = input,
                            !.cursor_position =
                                clamp_cursor(input, saturating_sub(i.cursor_position, n))]
    ELSE i

\* popup.rs 32-39
showp(i) == i.completions # <<>>
get_select(i) ==
    IF i.selected.some /\ i.selected.v < Len(i.completions)
    THEN Some(i.completions[i.selected.v + 1].text)
    ELSE None

\* popup.rs 46-72 (called only while the list is not empty)
popup_next(i) ==
    [i EXCEPT !.selected =
        IF ~i.selected.some THEN Some(0)
        ELSE IF i.selected.v >= Len(i.completions) - 1 THEN Some(0)
        ELSE Some(i.selected.v + 1)]
popup_previous(i) ==
    [i EXCEPT !.selected =
        IF ~i.selected.some THEN Some(0)
        ELSE IF i.selected.v = 0 THEN Some(Len(i.completions) - 1)
        ELSE Some(i.selected.v - 1)]

CompletionItem(score, text) == [score |-> score, text |-> text]

\* slice::sort_by_key(|item| item.score), stable
RECURSIVE insert_by_score(_, _)
insert_by_score(x, sorted) ==
    IF sorted = <<>> THEN <<x>>
    ELSE IF Head(sorted).score <= x.score
         THEN <<Head(sorted)>> \o insert_by_score(x, Tail(sorted))
         ELSE <<x>> \o sorted
RECURSIVE sort_by_score(_)
sort_by_score(list) ==
    IF list = <<>> THEN <<>>
    ELSE insert_by_score(list[Len(list)], sort_by_score(SubSeq(list, 1, Len(list) - 1)))

\* input.rs 173-189: score every keyword, drop the zeros, sort, reverse
filter_complections(fragment) ==
    LET scored == [k \in 1..Len(complection_all) |->
                      CompletionItem(calc_item_score(fragment, complection_all[k]),
                                     complection_all[k])]
    IN  reverse(sort_by_score(SelectSeq(scored, LAMBDA item : item.score # 0)))

\* input.rs 142-202
update_complection(i) ==
    IF i.input = <<>> THEN [i EXCEPT !.completions = <<>>]
    ELSE IF last(i.input) = " " THEN [i EXCEPT !.completions = <<>>]
    ELSE IF i.complection_finish THEN i
    ELSE LET last_input == last(split(i.input, " ")) IN
         IF last_input # <<>> /\ Head(last_input) = "+"
         THEN LET stripped == Tail(last_input)
                  found == filter_complections(stripped)
              IN  IF found # <<>>
                  THEN [i EXCEPT !.selected = IF get_select(i).some THEN @ ELSE Some(0),
                                 !.input_len = Len(stripped),
                                 !.completions = found]
                  ELSE i
         ELSE i

\* input.rs 206-243 and popup.rs 76-92: what a key event does to the component
handle_events(i, key) ==
    CASE key.code = "Char" ->
            enter_char([i EXCEPT !.complection_finish = FALSE], key.c)
      [] key.code = "Backspace" ->
            delete_char([i EXCEPT !.complection_finish = FALSE])
      [] key.code = "Left" ->
            [i EXCEPT !.cursor_position =
                clamp_cursor(i.input, saturating_sub(i.cursor_position, 1))]
      [] key.code = "Right" ->
            [i EXCEPT !.cursor_position = clamp_cursor(i.input, i.cursor_position + 1)]
      [] OTHER ->
            IF ~showp(i) THEN i
            ELSE CASE key.code = "Tab" -> popup_next(i)
                   [] key.code = "BackTab" -> popup_previous(i)
                   [] key.code = "Enter" ->
                        LET finished == [i EXCEPT !.complection_finish = TRUE] IN
                        IF get_select(finished).some
                        THEN LET deleted == delete_n_char(finished, finished.input_len) IN
                             IF deleted.pc = "panicked" THEN deleted
                             ELSE [enter_string(deleted, get_select(finished).v)
                                      EXCEPT !.completions = <<>>]
                        ELSE finished
                   [] OTHER -> i

Keys ==
    {[code |-> "Char", c |-> c] : c \in InputChars}
        \cup {[code |-> code, c |-> ""] : code \in {"Backspace", "Left", "Right"} \cup OtherKeys}

\* input.rs 19-25, popup.rs 23-30
InputInit ==
    /\ inp \in [pc : {"key"}, overflow_checks : BOOLEAN, input : {<<>>},
                cursor_position : {0}, complection_finish : {FALSE},
                selected : {None}, input_len : {0}, completions : {<<>>},
                edits : {0}, accepted : {0}, before : {[key |-> "none", input |-> <<>>, cursor_position |-> 0,
                           text |-> None]}]
    /\ sc = Unused
    /\ flt = Unused
    /\ CoreUnused

accepts(i, key) == key.code = "Enter" /\ showp(i) /\ get_select(i).some

\* A key event reaches the component.  edits and accepted count the Char and
\* Backspace keys and the completions accepted so far;
\* before remembers the input, the cursor and the selection an accepting
\* Enter met, until the next key.
HandleEvents(key) ==
    /\ inp.pc = "key"
    /\ key.code \in {"Char", "Backspace"} => inp.edits < MaxEdits
    /\ accepts(inp, key) => inp.accepted < MaxAccepts
    /\ LET after == handle_events(inp, key) IN
       inp' = [after EXCEPT
                 !.pc = IF after.pc = "panicked" THEN "panicked" ELSE "update",
                 !.edits = IF key.code \in {"Char", "Backspace"} THEN @ + 1 ELSE @,
                 !.accepted = IF accepts(inp, key) THEN @ + 1 ELSE @,
                 !.before = IF accepts(inp, key)
                            THEN [key |-> key.code, input |-> inp.input,
                                  cursor_position |-> inp.cursor_position,
                                  text |-> get_select(inp)]
                            ELSE [key |-> "none", input |-> <<>>, cursor_position |-> 0,
                                  text |-> None]]
    /\ UNCHANGED <<core_vars, sc, flt>>

\* The completion list is recomputed after the key event.
UpdateComplection ==
    /\ inp.pc = "update"
    /\ inp' = [update_complection(inp) EXCEPT !.pc = "key"]
    /\ UNCHANGED <<core_vars, sc, flt>>

InputNext ==
    \/ \E key \in Keys : HandleEvents(key)
    \/ UpdateComplection

SpecInput == InputInit /\ [][InputNext]_vars

-----------------------------------------------------------------------------
(* Properties of the input and its completions (SpecInput) *)

Updated == inp.pc = "key"
LastToken == last(split(inp.input, " "))
Offered == {inp.completions[k].text : k \in 1..Len(inp.completions)}

\* C25: the empty query scores 1 on every keyword, and after the update that
\* follows a key, an input whose last token is just "+" has all seven keywords
\* in its completion list.
C25_PlusAloneOffersEveryKeyword ==
    /\ \A item \in Keywords : calc_item_score(<<>>, item) = 1
    /\ (Updated /\ LastToken = <<"+">>) =>
          /\ Offered = Keywords
          /\ Len(inp.completions) = 7
          /\ \A k \in 1..Len(inp.completions) : inp.completions[k].score = 1

C25_Witness ==
    /\ Updated
    /\ inp.input = <<"N", " ", "+">>
    /\ Len(inp.completions) = 7

\* The keywords that score against a fragment, best first, equal scores in the
\* order of the vocabulary.
RECURSIVE RankedFrom(_, _)
RankedFrom(items, score) ==
    IF score = 0 THEN <<>>
    ELSE SelectSeq(items, LAMBDA item : item.score = score) \o RankedFrom(items, score - 1)
Ranked(fragment) ==
    LET items == [k \in 1..Len(complection_all) |->
                     CompletionItem(calc_item_score(fragment, complection_all[k]),
                                    complection_all[k])]
        best == CHOOSE m \in {items[k].score : k \in 1..Len(items)} :
                    \A k \in 1..Len(items) : items[k].score <= m
    IN  RankedFrom(items, best)

\* C27: the completion list computed for a "+"-fragment holds exactly the
\* keywords with a non-zero score, by descending score, and keywords of equal
\* score in the order of the vocabulary.
C27_CompletionsRankedTiesInOrder ==
    (/\ Updated /\ ~inp.complection_finish
     /\ LastToken # <<>> /\ Head(LastToken) = "+"
     /\ Ranked(Tail(LastToken)) # <<>>)
    => inp.completions = Ranked(Tail(LastToken))

\* The input with its last token replaced by "+" and the keyword.
Replaced(input, text) ==
    LET pieces == split(input, " ")
        kept == Len(input) - Len(last(pieces))
    IN  SubSeq(input, 1, kept) \o <<"+">> \o text

\* C28: when a selected completion is accepted, the input becomes the input
\* before the key with its last token replaced by "+" and the selected keyword,
\* and the completion list is empty, wherever the cursor was.
C28_AcceptReplacesFragment ==
    (inp.pc \in {"update", "panicked"} /\ inp.before.key = "Enter" /\ inp.before.text.some)
    => /\ inp.pc = "update"
       /\ inp.input = Replaced(inp.before.input, inp.before.text.v)
       /\ inp.completions = <<>>

\* C35: after the update that follows a key, with no completion just
\* accepted, a completion list that is not empty belongs to the input at hand:
\* the last token starts with "+", every listed keyword scores against the
\* fragment after it, and input_len is the length of that fragment.
C35_CompletionsAreFresh ==
    (Updated /\ ~inp.complection_finish /\ inp.completions # <<>>) =>
       /\ LastToken # <<>> /\ Head(LastToken) = "+"
       /\ \A k \in 1..Len(inp.completions) :
             calc_item_score(Tail(LastToken), inp.completions[k].text) # 0
       /\ inp.input_len = Len(Tail(LastToken))

\* The record after delete_n_char(n) as C40 states it: the n characters
\* before the cursor go when the cursor is at least n, else nothing changes.
DeletedWhenCursorAllows(i, n) ==
    IF i.cursor_position >= n
    THEN [i EXCEPT !.input = SubSeq(i.input, 1, i.cursor_position - n)
                                 \o SubSeq(i.input, i.cursor_position + 1, Len(i.input)),
                   !.cursor_position = i.cursor_position - n]
    ELSE i

\* C40: accepting a completion does not panic, and it deletes the input_len
\* characters before the cursor only when the cursor is at least input_len,
\* else it leaves input and cursor as they were, before the keyword is
\* appended; this for every cursor position Left and Right can reach.
C40_AcceptDeletesOnlyWithinInput ==
    (inp.pc \in {"update", "panicked"} /\ inp.before.key = "Enter" /\ inp.before.text.some)
    => /\ inp.pc # "panicked"
       /\ LET held == [inp EXCEPT !.input = inp.before.input,
                                  !.cursor_position = inp.before.cursor_position]
              stated == enter_string(DeletedWhenCursorAllows(held, inp.input_len),
                                     inp.before.text.v)
          IN  /\ inp.input = stated.input
              /\ inp.cursor_position = stated.cursor_position

-----------------------------------------------------------------------------
(* SpecFilter: one call of ReposShow::update_show_repos on a list of       *)
(* repositories and a filter string built from up to MaxTokens tokens.     *)

MaxTokens == 3
MaxRepos == 2

\* gitrepo.rs 33-46: the exact names, nothing else
from_str_any_case(s) ==
    CASE to_lowercase(s) = <<"c", "l", "e", "a", "n">> -> Ok("Clean")
      [] to_lowercase(s) = <<"n", "e", "e", "d", "p", "u", "l", "l">> -> Ok("NeedPull")
      [] to_lowercase(s) = <<"n", "e", "e", "d", "p", "u", "s", "h">> -> Ok("NeedPush")
      [] to_lowercase(s) = <<"n", "e", "e", "d", "c", "o", "m", "m", "i", "t">> -> Ok("NeedCommit")
      [] to_lowercase(s) = <<"t", "i", "m", "e", "o", "u", "t">> -> Ok("Timeout")
      [] OTHER -> Err("()")

from_str(s) ==
    CASE s = <<"C", "l", "e", "a", "n">> -> Ok("Clean")
      [] s = <<"N", "e", "e", "d", "P", "u", "l", "l">> -> Ok("NeedPull")
      [] s = <<"N", "e", "e", "d", "P", "u", "s", "h">> -> Ok("NeedPush")
      [] s = <<"N", "e", "e", "d", "C", "o", "m", "m", "i", "t">> -> Ok("NeedCommit")
      [] s = <<"T", "i", "m", "e", "o", "u", "t">> -> Ok("Timeout")
      [] OTHER -> Err("()")

\* gitrepo.rs 19-30: the label of a status, as its Unicode code points
to_string(status) ==
    CASE status = "Clean" -> <<24178, 20928>>
      [] status = "NeedPull" -> <<38656, 35201, 25289, 21462>>
      [] status = "NeedPush" -> <<38656, 35201, 25512, 36865>>
      [] status = "NeedCommit" -> <<38656, 35201, 67, 111, 109, 109, 105, 116>>
      [] status = "Timeout" -> <<36229, 26102>>

\* str::trim
RECURSIVE trim(_)
trim(text) ==
    IF text = <<>> THEN text
    ELSE IF Head(text) = " " THEN trim(Tail(text))
    ELSE IF text[Len(text)] = " " THEN trim(SubSeq(text, 1, Len(text) - 1))
    ELSE text

\* [&str]::join
RECURSIVE join(_, _)
join(pieces, sep) ==
    IF pieces = <<>> THEN <<>>
    ELSE IF Len(pieces) = 1 THEN pieces[1]
    ELSE pieces[1] \o sep \o join(Tail(pieces), sep)

\* str::contains(&str)
contains_str(text, pattern) ==
    \E at \in 0..(Len(text) - Len(pattern)) :
        SubSeq(text, at + 1, at + Len(pattern)) = pattern

\* Path::display().to_string()
display(path) ==
    (IF path.abs THEN <<"/">> ELSE <<>>) \o join(path.segs, <<"/">>)

plus_path == <<"+", "p", "a", "t", "h">>
plus_match_case == <<"+", "m", "a", "t", "c", "h", "_", "c", "a", "s", "e">>

\* reposhow.rs 36-56: the loop over the keys
RECURSIVE parse_keys(_, _)
parse_keys(key_lst, parsed) ==
    IF key_lst = <<>> THEN parsed
    ELSE LET key == Head(key_lst)
             then ==
               IF key = plus_path THEN [parsed EXCEPT !.use_path_search = TRUE]
               ELSE IF key = plus_match_case THEN [parsed EXCEPT !.use_match_case = TRUE]
               ELSE IF Len(key) > 1 /\ Head(key) = "+"
                    THEN IF from_str(Tail(key)).ok
                         THEN [parsed EXCEPT !.filter_key = Append(@, from_str(Tail(key)).v)]
                         ELSE [parsed EXCEPT !.other_search = Append(@, key)]
                    ELSE [parsed EXCEPT !.other_search = Append(@, key)]
         IN  parse_keys(Tail(key_lst), then)

\* reposhow.rs 29-34
parse_input(input) ==
    parse_keys(split(trim(input), " "),
               [use_path_search |-> FALSE, use_match_case |-> FALSE,
                filter_key |-> <<>>, other_search |-> <<>>])

\* reposhow.rs 64-68.  Vec::drain(..3) panics on a vector shorter than 3.
drain_panics(repo) ==
    LET path == split(display(repo.path), "/") IN Len(path) >= 2 /\ Len(path) < 3
shown_path(repo) ==
    LET path == split(display(repo.path), "/") IN
    << <<"~">> >> \o (IF Len(path) >= 2 THEN SubSeq(path, 4, Len(path)) ELSE path)

\* reposhow.rs 71-110: does the repository stay in the list
passes(repo, input, parsed) ==
    input # <<>> =>
      /\ parsed.filter_key = <<>>
            \/ \E k \in 1..Len(parsed.filter_key) : parsed.filter_key[k] = repo.status
      /\ LET search_item == IF parsed.use_path_search
                            THEN join(shown_path(repo), <<"/">>)
                            ELSE repo.name
         IN  \A k \in 1..Len(parsed.other_search) :
                IF parsed.use_match_case
                THEN contains_str(search_item, parsed.other_search[k])
                ELSE contains_str(to_lowercase(search_item),
                                  to_lowercase(parsed.other_search[k]))

\* reposhow.rs 60-114: the loop over the repositories, from position at
RECURSIVE show_loop(_, _, _, _, _)
show_loop(repo_list, at, input, parsed, show_repos) ==
    IF at > Len(repo_list) THEN [panicked |-> FALSE, show_repos |-> show_repos]
    ELSE IF drain_panics(repo_list[at]) THEN [panicked |-> TRUE, show_repos |-> show_repos]
    ELSE show_loop(repo_list, at + 1, input, parsed,
                   IF passes(repo_list[at], input, parsed)
                   THEN Append(show_repos,
                               <<at - 1, repo_list[at].name,
                                 join(shown_path(repo_list[at]), <<"/">>),
                                 to_string(repo_list[at].status)>>)
                   ELSE show_repos)

\* reposhow.rs 28-117
update_show_repos(repo_list, input) ==
    show_loop(repo_list, 1, input, parse_input(input), <<>>)

Tokens ==
    {plus_path, plus_match_case,
     <<"+", "N", "e", "e", "d", "P", "u", "l", "l">>,
     <<"+", "C", "l", "e", "a", "n">>,
     <<"+", "n", "e", "e", "d", "p", "u", "l", "l">>,
     <<"+", "B", "o", "g", "u", "s">>,
     <<"+">>, <<"f", "o", "o">>, <<"F">>, <<"h">>, <<"~">>,
     <<"t", "e", "r", "m">>, <<>>}

FilterInputs ==
    {join(keys, <<" ">>) : keys \in UNION {[1..n -> Tokens] : n \in 0..MaxTokens}}

ShownRepos ==
    {GitRepo(<<"f", "o", "o">>,
             AbsPath(<< <<"h">>, <<"u">>, <<"p">>, <<"f", "o", "o">> >>), "NeedPull", 0),
     GitRepo(<<"F", "o", "o">>,
             AbsPath(<< <<"h">>, <<"u">>, <<"F", "o", "o">> >>), "Clean", 0),
     GitRepo(<<"h">>,
             AbsPath(<< <<"h">>, <<"u">>, <<"w">>, <<"h">> >>), "NeedPush", 0),
     GitRepo(<<"s">>, AbsPath(<< <<"s">> >>), "Clean", 0)}

RepoLists ==
    {list \in UNION {[1..n -> ShownRepos] : n \in 0..MaxRepos} :
        \A i, j \in 1..Len(list) : list[i].path = list[j].path => i = j}

\* What an earlier call left in show_repos: nothing, or one row.
EarlierShown ==
    {<<>>,
     update_show_repos(
        <<GitRepo(<<"h">>, AbsPath(<< <<"h">>, <<"u">>, <<"w">>, <<"h">> >>),
                  "NeedPush", 0)>>, <<>>).show_repos}

FilterInit ==
    /\ flt \in [pc : {"call"}, repos : RepoLists, input : FilterInputs,
                show_repos : EarlierShown, parsed : {parse_input(<<>>)}]
    /\ sc = Unused
    /\ inp = Unused
    /\ CoreUnused

\* The call runs to its end or to the panic.  parsed keeps the call's locals.
UpdateShowRepos ==
    /\ flt.pc = "call"
    /\ LET out == update_show_repos(flt.repos, flt.input) IN
       flt' = [flt EXCEPT !.pc = IF out.panicked THEN "panicked" ELSE "returned",
                          !.show_repos = out.show_repos,
                          !.parsed = parse_input(flt.input)]
    /\ UNCHANGED <<core_vars, sc, inp>>

FilterNext == UpdateShowRepos

SpecFilter == FilterInit /\ [][FilterNext]_vars

-----------------------------------------------------------------------------
(* Properties of the filter (SpecFilter) *)

FilterRan == flt.pc \in {"returned", "panicked"}
FilterTokens == split(trim(flt.input), " ")
StatusNames == {SubSeq(complection_all, 3, 7)[k] : k \in 1..5}
StatusNamed(text) ==
    CHOOSE status \in GitStatus :
        \E k \in 3..7 : complection_all[k] = text
                        /\ status = <<"NeedPull", "Clean", "NeedPush", "NeedCommit",
                                      "Timeout">>[k - 2]
IsFlag(token) == token \in {plus_path, plus_match_case}
IsStatusToken(token) ==
    ~IsFlag(token) /\ Len(token) > 1 /\ Head(token) = "+" /\ Tail(token) \in StatusNames
StatusFilters ==
    LET named == SelectSeq(FilterTokens, IsStatusToken) IN
    [k \in 1..Len(named) |-> StatusNamed(Tail(named[k]))]
Residual == SelectSeq(FilterTokens, LAMBDA token : ~IsFlag(token) /\ ~IsStatusToken(token))

\* C21: a token "+path" turns path search on, a token "+match_case" turns case
\* matching on, a longer "+" token whose remainder is exactly a status name is
\* a status filter, and every other token is a residual term, in input order.
C21_TokensClassified ==
    FilterRan =>
      /\ flt.parsed.use_path_search <=> \E k \in 1..Len(FilterTokens) : FilterTokens[k] = plus_path
      /\ flt.parsed.use_match_case <=>
            \E k \in 1..Len(FilterTokens) : FilterTokens[k] = plus_match_case
      /\ flt.parsed.filter_key = StatusFilters
      /\ flt.parsed.other_search = Residual
      /\ flt.input = <<"+", "B", "o", "g", "u", "s", " ", "t", "e", "r", "m">> =>
            /\ flt.parsed.other_search =
                  << <<"+", "B", "o", "g", "u", "s">>, <<"t", "e", "r", "m">> >>
            /\ flt.parsed.filter_key = <<>>
            /\ ~flt.parsed.use_path_search

C21_Witness ==
    /\ FilterRan
    /\ flt.input = <<"+", "N", "e", "e", "d", "P", "u", "l", "l", " ">> \o plus_path
                       \o <<" ", "f", "o", "o">>
    /\ flt.parsed = [use_path_search |-> TRUE, use_match_case |-> FALSE,
                     filter_key |-> <<"NeedPull">>, other_search |-> << <<"f", "o", "o">> >>]

\* The policy of C22 for one repository: its status is wanted and every
\* residual term occurs in its name, or in its path under "+path".
Wanted(repo) ==
    /\ StatusFilters = <<>> \/ \E k \in 1..Len(StatusFilters) : StatusFilters[k] = repo.status
    /\ LET field == IF \E k \in 1..Len(FilterTokens) : FilterTokens[k] = plus_path
                    THEN display(repo.path) ELSE repo.name
           cased == \E k \in 1..Len(FilterTokens) : FilterTokens[k] = plus_match_case
       IN  \A k \in 1..Len(Residual) :
              IF cased THEN contains_str(field, Residual[k])
              ELSE contains_str(to_lowercase(field), to_lowercase(Residual[k]))
ShownIndexes == [k \in 1..Len(flt.show_repos) |-> flt.show_repos[k][1]]
RECURSIVE WantedFrom(_)
WantedFrom(at) ==
    IF at > Len(flt.repos) THEN <<>>
    ELSE (IF Wanted(flt.repos[at]) THEN <<at - 1>> ELSE <<>>) \o WantedFrom(at + 1)

\* C22: for a non-empty filter string a call that returns shows exactly the
\* repositories whose status is among the status filters (or any, when there
\* is none) and whose name, or path under "+path", contains every residual
\* term, without regard to case unless "+match_case" is given, in list order.
C22_ShownIffStatusAndTermsMatch ==
    (flt.pc = "returned" /\ flt.input # <<>>) => ShownIndexes = WantedFrom(1)

\* C23: with the empty filter string every repository is shown, in list
\* order, with its index in the list, whatever show_repos held before.
C23_EmptyFilterShowsAll ==
    (FilterRan /\ flt.input = <<>>) =>
      /\ flt.pc = "returned"
      /\ Len(flt.show_repos) = Len(flt.repos)
      /\ \A k \in 1..Len(flt.show_repos) :
            /\ flt.show_repos[k][1] = k - 1
            /\ flt.show_repos[k][2] = flt.repos[k].name

\* C39: update_show_repos returns for every repository list, also for one
\* holding a repository whose path has fewer than three pieces between
\* slashes, and the same path shortening in App::ui goes through for every
\* repository of the list.
C39_ShowNeverPanics ==
    FilterRan =>
      /\ flt.pc = "returned"
      /\ \A k \in 1..Len(flt.repos) : ~drain_panics(flt.repos[k])

-----------------------------------------------------------------------------
(* SpecSelect: the repository table over time.  update_show_repos is       *)
(* called with changing lists and filter strings, the user moves the       *)
(* selection with next and previous, and get_select_repo_id reads it.      *)
(* The table keeps its state in flt.                                       *)

SelectInputs ==
    {<<>>, <<"f", "o", "o">>, <<"h">>, <<"+", "C", "l", "e", "a", "n">>}

\* reposhow.rs 124-140
show_next(t) ==
    IF t.show_repos = <<>> THEN t
    ELSE [t EXCEPT !.selected =
            IF ~t.selected.some THEN Some(0)
            ELSE IF t.selected.v >= Len(t.show_repos) - 1 THEN Some(0)
            ELSE Some(t.selected.v + 1)]

\* reposhow.rs 142-158
show_previous(t) ==
    IF t.show_repos = <<>> THEN t
    ELSE [t EXCEPT !.selected =
            IF ~t.selected.some THEN Some(0)
            ELSE IF t.selected.v = 0 THEN Some(Len(t.show_repos) - 1)
            ELSE Some(t.selected.v - 1)]

\* reposhow.rs 119-122: None without a selection; indexing show_repos past
\* its end panics.
get_select_repo_id(t) ==
    IF ~t.selected.some THEN [panicked |-> FALSE, id |-> None]
    ELSE IF t.selected.v >= Len(t.show_repos) THEN [panicked |-> TRUE, id |-> None]
    ELSE [panicked |-> FALSE, id |-> Some(t.show_repos[t.selected.v + 1][1])]

\* reposhow.rs 20-26
SelectInit ==
    /\ flt = [pc |-> "ready", show_repos |-> <<>>, selected |-> None,
              shown_of |-> 0, id |-> None]
    /\ sc = Unused
    /\ inp = Unused
    /\ CoreUnused

\* reposhow.rs 28-117: the table is rebuilt; shown_of keeps the length of the
\* list it was built from.
SelectUpdate(repo_list, input) ==
    /\ flt.pc = "ready"
    /\ LET out == update_show_repos(repo_list, input) IN
       flt' = [flt EXCEPT !.pc = IF out.panicked THEN "panicked" ELSE "ready",
                          !.show_repos = out.show_repos,
                          !.shown_of = Len(repo_list)]
    /\ UNCHANGED <<core_vars, sc, inp>>

SelectNext ==
    /\ flt.pc = "ready"
    /\ flt' = show_next(flt)
    /\ UNCHANGED <<core_vars, sc, inp>>

SelectPrevious ==
    /\ flt.pc = "ready"
    /\ flt' = show_previous(flt)
    /\ UNCHANGED <<core_vars, sc, inp>>

GetSelectRepoId ==
    /\ flt.pc = "ready"
    /\ LET got == get_select_repo_id(flt) IN
       flt' = [flt EXCEPT !.pc = IF got.panicked THEN "out_of_bounds" ELSE "ready",
                          !.id = got.id]
    /\ UNCHANGED <<core_vars, sc, inp>>

SelectStep ==
    \/ \E repo_list \in RepoLists, input \in SelectInputs : SelectUpdate(repo_list, input)
    \/ SelectNext
    \/ SelectPrevious
    \/ GetSelectRepoId

SpecSelect == SelectInit /\ [][SelectStep]_vars

\* C38: whatever update_show_repos, next and previous were called, a selected
\* row is a row of the table, get_select_repo_id does not index past the end
\* of the table, and the id it returns is that of a shown repository.
C38_SelectionWithinShownRows ==
    /\ flt.selected.some => flt.selected.v < Len(flt.show_repos)
    /\ flt.pc # "out_of_bounds"
    /\ flt.id.some => flt.id.v < flt.shown_of

====
